---- MODULE Spec2Model ----
(***************************************************************************)
(* Verification model of the NAV reconciliation pipeline                   *)
(* (wyc7419/caculate_net_value_v2):                                         *)
(*   - main/calculate_positions_backward.py  backward reconstruction       *)
(*   - main/caculate_net_value_v2.py         bucket grid, FIFO, net value  *)
(*   - main/event_impact_recorder.py         event normalisation           *)
(*   - main/data_loader.py, main/kline_fetcher.py  external sources        *)
(*   - main/net_value_timescale_manager.py   the store of the series       *)
(*   - scripts/calculate.py, web/api/calculate.py  a run served as stream  *)
(*                                                                         *)
(* Amounts are integers in units of 0.01 coin, so the code's absolute      *)
(* tolerance 0.01 is one unit and its zero threshold 1e-10 lies below one  *)
(* unit; SpecUndoRedo alone counts amounts in units of 0.5e-10, where the  *)
(* threshold is two units.                                                 *)
(* The module holds one specification per pipeline stage (SpecBackward,    *)
(* SpecSources, SpecGrid, SpecTimeline, SpecPages, SpecPrice, SpecSave,    *)
(* SpecOverwrite, SpecWeb, SpecWebFair, SpecUndoRedo, SpecFifo, SpecPerp,  *)
(* SpecNav, SpecSeries, SpecRun); each leaves the other stages' variables  *)
(* untouched.                                                              *)
(***************************************************************************)
EXTENDS Integers, Sequences, FiniteSets, TLC

VARIABLES
    \* ---- backward reconstruction (calculate_backward) ----
    events,         \* recorder.impacts: the timeline, newest first
    snapshots,      \* grouped snapshots: time -> [spot, perp]
    df,             \* the DataFrame rows, newest first until reversed
    pc,             \* position in calculate_backward / generate_time_intervals
    start_idx,      \* row at which the walk is seeded (1-based)
    idx,            \* row the walk has reached (1-based)
    current_spot,   \* working spot position
    current_perp,   \* working perp position
    intervals,      \* intervals_df['timestamp']
    \* ---- one FIFO lot queue under a sequence of operations ----
    queue,          \* the lot queue
    start_sum,      \* signed lot sum of the starting queue
    trade_sum,      \* signed sum of the trades applied so far
    shortfall,      \* some close was left with an unmatched amount
    nops,           \* number of operations applied
    last_op,        \* the last operation applied
    prev_queue,     \* the queue the last operation was applied to
    last_amount,    \* the amount of the last operation
    last_pnl,       \* the realized PnL the last operation returned
    \* ---- perpetual valuation (calculate_perp_account_value) ----
    positions_df,   \* the reconstructed timeline, oldest first
    price_cols,     \* intervals_df['<coin>_perp_price']; <<>> = no column
    grid,           \* intervals_df['timestamp']
    ppc,            \* position in calculate_perp_account_value
    pidx,           \* the loop's idx (0-based, as in the code)
    position_queues,    \* coin -> lot queue
    residual,       \* coin -> a close of this bucket was left unmatched
    realized_pnl,   \* intervals_df['realized_pnl']
    virtual_pnl,    \* intervals_df['virtual_pnl']
    perp_account_value, \* intervals_df['perp_account_value']
    perp_positions_col, \* intervals_df['perp_positions']
    warned_mismatches,  \* the warning keys already logged
    warning_log,    \* warning key -> number of warnings printed
    mismatch_buckets,   \* warning key -> number of buckets that showed it
    \* ---- net value (calculate_net_value) ----
    spot_account_value, \* intervals_df['spot_account_value']
    perp_value_col,     \* intervals_df['perp_account_value'] as handed over
    interval_events,    \* per bucket, the timeline rows in (prev, this]
    total_assets,   \* intervals_df['total_assets']
    total_shares,   \* intervals_df['total_shares'], a fraction
    net_value,      \* intervals_df['net_value'], a fraction
    cumulative_pnl, \* intervals_df['cumulative_pnl']
    npc,            \* position in calculate_net_value
    nidx,           \* the loop's idx (1-based)
    first_non_zero_idx, \* 0 = None
    \* ---- one run of the pipeline (scripts/calculate.py) ----
    failure,        \* which external call fails, and how
    src_events,     \* what the event source holds for the account
    src_snapshots,  \* number of snapshots the snapshot source holds
    rpc,            \* position in the run
    loaded,         \* the events loaded so far
    attempt,        \* fetch_klines' attempt
    sleeps,         \* the backoff waits taken, in seconds
    failed_calls,   \* calls that have finally failed
    run_result,     \* "running", "failed" or "series"
    \* ---- one impact applied, undone and applied again ----
    rt_impact,      \* the impact of the event
    rt_spot,        \* the spot position
    rt_perp,        \* the perp position
    rt_once,        \* [spot, perp] after the impact was applied once
    rt_pc,          \* "apply", "undo", "redo" or "done"
    \* ---- one paginated load (load_trades, load_snapshots_from_api) ----
    pg_loader,      \* which loader runs
    pg_source,      \* the records the source holds, in the order it pages them
    pg_page,        \* page
    pg_all,         \* what the loader has accumulated
    pg_requests,    \* per request made, the number of records it received
    pg_pc,          \* "request" or "done"
    \* ---- one price lookup (get_price_at_timestamp) ----
    kl_data,        \* per interval, what fetch_klines answers
    kl_timestamp,   \* the timestamp asked for
    kl_intervals,   \* intervals_to_try
    kl_i,           \* position in intervals_to_try (1-based)
    kl_result,      \* the value returned; <<>> = None
    kl_pc,          \* "try" or "done"
    \* ---- the snapshot sources (_group_snapshots_by_time) ----
    summary_times,  \* times of the account_summary rows
    detail_times,   \* times that have position and balance rows
    \* ---- one save of a series (save_net_value_data) ----
    db_table,       \* the interval's table: rows [address, time, value]
    db_before,      \* the table before the save
    db_address,     \* address
    db_series,      \* df: rows [timestamp, value], oldest first
    db_incremental, \* incremental
    db_stats,       \* the statistics returned
    db_pc,          \* "save" or "done"
    \* ---- the calculation streams of the web interface ----
    sys_stdout,     \* sys.stdout: 0 the original stream, r request r's LogCapture
    address_cache,  \* whether address_cache[interval] holds the address
    ws_pc,          \* per request, the position of run_calculation
    ws_prints,      \* per request, the lines its calculation has printed
    ws_outcome,     \* per request, how calc_func ended
    ws_saved,       \* per request, whether its series is in the store
    ws_closed,      \* per request, log_capture.closed
    log_queue,      \* per request, log_queue
    ws_stream,      \* per request, the events generate() has yielded
    ws_gen,         \* per request, "wait" or "ended"
    \* ---- one full-overwrite save, batch by batch ----
    ow_committed,   \* the table as committed
    ow_txn,         \* the table as the open transaction sees it
    ow_before,      \* the rows of the address before the save
    ow_series,      \* data_list, one row standing for a batch of batch_size rows
    ow_i,           \* the batch to insert next
    ow_batches,     \* batches_since_commit
    ow_pc           \* "start", "batch", "returned" or "raised"

varsB == <<events, snapshots, df, pc, start_idx, idx, current_spot,
           current_perp, intervals>>
varsF == <<queue, start_sum, trade_sum, shortfall, nops, last_op, prev_queue,
           last_amount, last_pnl>>
varsP == <<positions_df, price_cols, grid, ppc, pidx, position_queues,
           residual, realized_pnl, virtual_pnl, perp_account_value,
           perp_positions_col, warned_mismatches, warning_log,
           mismatch_buckets>>
varsN == <<spot_account_value, perp_value_col, interval_events, total_assets,
           total_shares, net_value, cumulative_pnl, npc, nidx,
           first_non_zero_idx>>
varsR == <<failure, src_events, src_snapshots, rpc, loaded, attempt, sleeps,
           failed_calls, run_result>>
varsU == <<rt_impact, rt_spot, rt_perp, rt_once, rt_pc>>
varsG == <<pg_loader, pg_source, pg_page, pg_all, pg_requests, pg_pc>>
varsK == <<kl_data, kl_timestamp, kl_intervals, kl_i, kl_result, kl_pc>>
varsS == <<summary_times, detail_times>>
varsD == <<db_table, db_before, db_address, db_series, db_incremental, db_stats, db_pc>>
varsW == <<sys_stdout, address_cache, ws_pc, ws_prints, ws_outcome, ws_saved, ws_closed, log_queue, ws_stream, ws_gen>>
varsO == <<ow_committed, ow_txn, ow_before, ow_series, ow_i, ow_batches, ow_pc>>
vars == <<varsB, varsF, varsP, varsN, varsR, varsU, varsG, varsK, varsS, varsD, varsW, varsO>>

\* The variables each stage leaves alone.
OthersB == <<varsF, varsP, varsN, varsR, varsU, varsG, varsK, varsS, varsD, varsW, varsO>>
OthersF == <<varsB, varsP, varsN, varsR, varsU, varsG, varsK, varsS, varsD, varsW, varsO>>
OthersP == <<varsB, varsF, varsN, varsR, varsU, varsG, varsK, varsS, varsD, varsW, varsO>>
OthersN == <<varsB, varsF, varsP, varsR, varsU, varsG, varsK, varsS, varsD, varsW, varsO>>
OthersR == <<varsB, varsF, varsP, varsN, varsU, varsG, varsK, varsS, varsD, varsW, varsO>>
OthersU == <<varsB, varsF, varsP, varsN, varsR, varsG, varsK, varsS, varsD, varsW, varsO>>
OthersG == <<varsB, varsF, varsP, varsN, varsR, varsU, varsK, varsS, varsD, varsW, varsO>>
OthersK == <<varsB, varsF, varsP, varsN, varsR, varsU, varsG, varsS, varsD, varsW, varsO>>
OthersS == <<varsB, varsF, varsP, varsN, varsR, varsU, varsG, varsK, varsD, varsW, varsO>>
OthersD == <<varsB, varsF, varsP, varsN, varsR, varsU, varsG, varsK, varsS, varsW, varsO>>
OthersW == <<varsB, varsF, varsP, varsN, varsR, varsU, varsG, varsK, varsS, varsD, varsO>>
OthersO == <<varsB, varsF, varsP, varsN, varsR, varsU, varsG, varsK, varsS, varsD, varsW>>

-----------------------------------------------------------------------------
(* Bounds of the model.                                                    *)
MaxEvents == 3
MaxSlots == 3
MaxSnaps == 2
GridMaxTime == 7
BucketWidth == 2
MaxLots == 2
MaxOps == 3
MaxAmount == 3
MaxDust == 3
MaxRecords == 5
MaxCandleTime == 4
MaxBucketTime == 3
MaxRequests == 2
MaxPrints == 1
MaxBatches == 7
page_size == 2
WholeLot == 1000

SpotCoins == {"USDC", "ETH"}
PerpCoins == {"BTC"}
\* Event times sit on even milliseconds so that a snapshot can fall strictly
\* between two events as well as on an event's own time.
Times == {2 * k : k \in 1..MaxSlots}
SnapTimes == 1..(2 * MaxSlots + 1)
\* Times of the grid specification: every millisecond, no drift.
GridTimes == 1..GridMaxTime
GridSnapTimes == 1..(GridMaxTime + 1)
\* Drift of a snapshot from the position the recorded impacts imply.
Noise == {0, 1, 2}

ZeroSpot == [c \in SpotCoins |-> 0]
ZeroPerp == [c \in PerpCoins |-> 0]
\* The account's position before its first event (never read by the code).
P0Spot == [c \in SpotCoins |-> IF c = "USDC" THEN 1000 ELSE 0]
P0Perp == [c \in PerpCoins |-> 200]

Abs(x) == IF x < 0 THEN -x ELSE x

RECURSIVE SetMax(_)
SetMax(S) ==
    LET x == CHOOSE y \in S : TRUE
    IN  IF S = {x} THEN x
        ELSE LET m == SetMax(S \ {x}) IN IF x > m THEN x ELSE m

SetMin(S) == -SetMax({-x : x \in S})

-----------------------------------------------------------------------------
(* Event normalisation: the impact of each raw event kind.                 *)
NoPerpChange == [coin |-> "", amount |-> 0, side |-> ""]

\* record_perp_trade_impact: {coin: {amount: sz, ..., side}}; no spot change.
PerpTradeImpact(sd, sz) ==
    [spot_position_changes |-> ZeroSpot,
     spot_asset_change_ex_position |-> 0,
     perp_position_changes |-> [coin |-> "BTC", amount |-> sz, side |-> sd]]

\* record_spot_trade_impact with feeToken = USDC: coin +-sz, USDC -+sz*px,
\* and the fee as spot_asset_change_ex_position.
SpotTradeImpact(sd, sz, px, fee) ==
    [spot_position_changes |->
        [c \in SpotCoins |-> IF c = "ETH"
                             THEN (IF sd = "B" THEN sz ELSE -sz)
                             ELSE (IF sd = "B" THEN -(sz * px) ELSE sz * px)],
     spot_asset_change_ex_position |-> -fee,
     perp_position_changes |-> NoPerpChange]

\* record_deposit_impact: no position change in either book.
DepositImpact ==
    [spot_position_changes |-> ZeroSpot,
     spot_asset_change_ex_position |-> 0,
     perp_position_changes |-> NoPerpChange]

ImpactOf(kind) ==
    CASE kind = "buy"  -> PerpTradeImpact("B", 100)
      [] kind = "sell" -> PerpTradeImpact("A", 100)
      [] kind = "spot" -> SpotTradeImpact("B", 100, 2, 1)
      [] OTHER         -> DepositImpact

EventKinds == {"buy", "sell", "spot"}

-----------------------------------------------------------------------------
(* Ground truth: the position the account really held, obtained by         *)
(* applying the impacts forward from P0.  Row i of the timeline (newest    *)
(* first) happens after every row j > i.                                   *)
ApplySpot(pos, imp) ==
    [c \in SpotCoins |->
        pos[c] + imp.spot_position_changes[c]
               + (IF c = "USDC" THEN imp.spot_asset_change_ex_position ELSE 0)]

ApplyPerp(pos, imp) ==
    LET ch == imp.perp_position_changes
    IN  [c \in PerpCoins |->
            IF c = ch.coin
            THEN (IF ch.side = "B" THEN pos[c] + ch.amount
                  ELSE IF ch.side = "A" THEN pos[c] - ch.amount ELSE pos[c])
            ELSE pos[c]]

RECURSIVE TrueSpotAfter(_, _)
TrueSpotAfter(ev, i) ==
    IF i > Len(ev) THEN P0Spot
    ELSE ApplySpot(TrueSpotAfter(ev, i + 1), ImpactOf(ev[i].kind))

RECURSIVE TruePerpAfter(_, _)
TruePerpAfter(ev, i) ==
    IF i > Len(ev) THEN P0Perp
    ELSE ApplyPerp(TruePerpAfter(ev, i + 1), ImpactOf(ev[i].kind))

\* The position held before row i = the position after row i + 1.
TrueSpotBefore(ev, i) == TrueSpotAfter(ev, i + 1)
TruePerpBefore(ev, i) == TruePerpAfter(ev, i + 1)

\* First (newest-first) row with time <= t, or Len + 1 when there is none.
RECURSIVE FirstAtOrBefore(_, _, _)
FirstAtOrBefore(ev, t, i) ==
    IF i > Len(ev) THEN i
    ELSE IF ev[i].time <= t THEN i ELSE FirstAtOrBefore(ev, t, i + 1)

\* The true position at snapshot time t: after every event stamped <= t.
TrueSpotAt(ev, t) == TrueSpotAfter(ev, FirstAtOrBefore(ev, t, 1))
TruePerpAt(ev, t) == TruePerpAfter(ev, FirstAtOrBefore(ev, t, 1))

-----------------------------------------------------------------------------
(* calculate_positions_backward.py                                         *)

\* _group_snapshots_by_time: one entry per account_summary time; a spot
\* balance is kept only when its amount is positive, perp sizes are kept
\* as they are.  n is the drift of the stored snapshot from the truth.
GroupedSnapshot(ev, t, n) ==
    LET rawSpot == [c \in SpotCoins |->
                       TrueSpotAt(ev, t)[c] + (IF c = "ETH" THEN n ELSE 0)]
        rawPerp == [c \in PerpCoins |-> TruePerpAt(ev, t)[c] + n]
    IN  [spot |-> [c \in SpotCoins |-> IF rawSpot[c] > 0 THEN rawSpot[c] ELSE 0],
         perp |-> rawPerp]

\* An index that leaves out the summary times without detail rows.
group_snapshots_by_time_mut(ev, times, detail) ==
    [t \in times \cap detail |-> GroupedSnapshot(ev, t, 0)]

\* _group_snapshots_by_time 175-181: every account_summary time is a key of
\* the index; a time without rows in the position and balance sources gets
\* spot_by_time.get(ts, {}) and positions_by_time.get(ts, []).
group_snapshots_by_time(ev, times, detail) ==
    [t \in times |-> IF t \in detail THEN GroupedSnapshot(ev, t, 0)
                    ELSE [spot |-> ZeroSpot, perp |-> ZeroPerp]]

\* The zero threshold 1e-10 of undo_spot_event and undo_perp_event in the
\* unit the amounts are counted in: below one unit of 0.01 coin, where no
\* amount but 0 itself is under it, and two units of 0.5e-10 coin.
EpsHundredths == 0
EpsFine == 2

\* abs(next_amount) < 1e-10: the coin is deleted from the position.
drop_below(amount, eps) == IF Abs(amount) < eps THEN 0 ELSE amount

\* undo_spot_event: subtract the change of every coin the event changes and
\* delete the coin when the result is under the threshold; then, when the
\* non-position asset change is above the threshold, subtract it from USDC
\* in the same way.
undo_spot_event(current, changes, asset_change, eps) ==
    LET step1 == [c \in SpotCoins |->
                     IF changes[c] = 0 THEN current[c]
                     ELSE drop_below(current[c] - changes[c], eps)]
    IN  [c \in SpotCoins |->
            IF c = "USDC" /\ Abs(asset_change) > eps
            THEN drop_below(step1[c] - asset_change, eps)
            ELSE step1[c]]

\* undo_perp_event: a buy is undone by subtracting, a sell by adding, and
\* the coin is deleted when the result is under the threshold; any other
\* side is skipped.
undo_perp_event(current, ch, eps) ==
    IF ch.coin = "" THEN current
    ELSE [c \in PerpCoins |->
            IF c # ch.coin THEN current[c]
            ELSE IF ch.side = "B" THEN drop_below(current[c] - ch.amount, eps)
            ELSE IF ch.side = "A" THEN drop_below(current[c] + ch.amount, eps)
            ELSE current[c]]

\* _is_within_tolerance with abs_tolerance = 0.01 (one unit) and
\* rel_tolerance = 0.01 (diff / |snap| <= 1/100).
is_within_tolerance(calc_val, snap_val) ==
    LET diff == Abs(calc_val - snap_val)
    IN  IF diff <= 1 THEN TRUE
        ELSE IF Abs(snap_val) > 0 /\ diff * 100 <= Abs(snap_val) THEN TRUE
        ELSE FALSE

\* _compare_positions: every coin of either side is within tolerance.
compare_positions(calc_spot, calc_perp, snap_spot, snap_perp) ==
    /\ \A c \in SpotCoins : is_within_tolerance(calc_spot[c], snap_spot[c])
    /\ \A c \in PerpCoins : is_within_tolerance(calc_perp[c], snap_perp[c])

\* The frame built from recorder.impacts: positions start as ''.
NewRow(e) ==
    LET imp == ImpactOf(e.kind)
    IN  [time |-> e.time,
         kind |-> e.kind,
         spot_position_changes |-> imp.spot_position_changes,
         spot_asset_change_ex_position |-> imp.spot_asset_change_ex_position,
         perp_position_changes |-> imp.perp_position_changes,
         spot_positions |-> ZeroSpot,
         perp_positions |-> ZeroPerp,
         is_snapshot_recorded |-> FALSE,
         snapshot_time |-> 0,
         snapshot_spot |-> ZeroSpot,
         snapshot_perp |-> ZeroPerp]

\* A placement that also takes a snapshot stamped with the row's own time.
insert_snapshots_to_events_mut(rows, snaps) ==
    [i \in 1..Len(rows) |->
        LET event_time == rows[i].time
            prev_event_time == IF i < Len(rows) THEN rows[i + 1].time ELSE 0
            matching == {t \in DOMAIN snaps :
                            prev_event_time < t /\ t <= event_time}
        IN  IF matching = {} THEN rows[i]
            ELSE LET latest == SetMax(matching)
                 IN  [rows[i] EXCEPT !.is_snapshot_recorded = TRUE,
                                     !.snapshot_time = latest,
                                     !.snapshot_spot = snaps[latest].spot,
                                     !.snapshot_perp = snaps[latest].perp]]

\* _insert_snapshots_to_events: row i (newest first) receives the latest
\* snapshot strictly between the next older row's time (0 for the oldest
\* row) and its own time.
insert_snapshots_to_events(rows, snaps) ==
    [i \in 1..Len(rows) |->
        LET event_time == rows[i].time
            prev_event_time == IF i < Len(rows) THEN rows[i + 1].time ELSE 0
            matching == {t \in DOMAIN snaps :
                            prev_event_time < t /\ t < event_time}
        IN  IF matching = {} THEN rows[i]
            ELSE LET latest == SetMax(matching)
                 IN  [rows[i] EXCEPT !.is_snapshot_recorded = TRUE,
                                     !.snapshot_time = latest,
                                     !.snapshot_spot = snaps[latest].spot,
                                     !.snapshot_perp = snaps[latest].perp]]

\* Lines 749-761: the first snapshot-carrying row, else the first row not
\* newer than the latest snapshot, else the first row.
find_start_idx(rows, latest_snapshot_time) ==
    LET withSnap == {i \in 1..Len(rows) : rows[i].is_snapshot_recorded}
        fallback == {i \in 1..Len(rows) : rows[i].time <= latest_snapshot_time}
    IN  IF withSnap # {} THEN SetMin(withSnap)
        ELSE IF fallback # {} THEN SetMin(fallback)
        ELSE 1

\* The working position kept as reconstructed, never replaced.
NextWorking_mut(calc, snap, has_snapshot) == calc

\* Lines 866-867: after the comparison the working position is replaced by
\* the snapshot whenever the row carries one.
NextWorking(calc, snap, has_snapshot) ==
    IF has_snapshot THEN snap ELSE calc

\* A frame filled with copies of its last row.
Reverse_mut(s) == [i \in 1..Len(s) |-> s[Len(s)]]

\* df.iloc[::-1]
Reverse(s) == [i \in 1..Len(s) |-> s[Len(s) - i + 1]]

\* generate_time_intervals: the end of the grid.  The snapshot-based value
\* of lines 175-184 is overwritten by the assignment of line 189, which sits
\* at function level.
grid_end_timestamp(rows) ==
    LET snapshot_rows == {i \in 1..Len(rows) : rows[i].is_snapshot_recorded}
        from_snapshot == IF snapshot_rows # {}
                         THEN rows[SetMax(snapshot_rows)].time
                         ELSE rows[Len(rows)].time
    IN  rows[Len(rows)].time

\* range(start_aligned, end_aligned, interval_ms)
time_grid(start_timestamp, end_timestamp, w) ==
    LET start_aligned == (start_timestamp \div w) * w
        end_aligned == ((end_timestamp \div w) + 1) * w
        n == (end_aligned - start_aligned) \div w
    IN  [k \in 1..n |-> start_aligned + (k - 1) * w]

-----------------------------------------------------------------------------
(* Actions of the backward reconstruction.                                 *)

\* calculate_backward 712-716: no snapshot data, the run stops.
AbortNoSnapshots ==
    /\ pc = "start"
    /\ DOMAIN snapshots = {}
    /\ pc' = "aborted"
    /\ UNCHANGED <<events, snapshots, df, start_idx, idx, current_spot,
                   current_perp, intervals>>
    /\ UNCHANGED OthersB

\* calculate_backward 718-747: build the frame and attach the snapshots.
InsertSnapshots ==
    /\ pc = "start"
    /\ DOMAIN snapshots # {}
    /\ df' = insert_snapshots_to_events(
                 [i \in 1..Len(events) |-> NewRow(events[i])], snapshots)
    /\ pc' = "seed"
    /\ UNCHANGED <<events, snapshots, start_idx, idx, current_spot,
                   current_perp, intervals>>
    /\ UNCHANGED OthersB

\* calculate_backward 749-795: choose the seed row, load the working
\* position and record it on the seed row.
SeedWalk ==
    /\ pc = "seed"
    /\ LET latest_snapshot_time == SetMax(DOMAIN snapshots)
           s == find_start_idx(df, latest_snapshot_time)
           has_snapshot == df[s].is_snapshot_recorded
           seed_spot == IF has_snapshot THEN df[s].snapshot_spot
                        ELSE snapshots[latest_snapshot_time].spot
           seed_perp == IF has_snapshot THEN df[s].snapshot_perp
                        ELSE snapshots[latest_snapshot_time].perp
       IN  /\ start_idx' = s
           /\ current_spot' = seed_spot
           /\ current_perp' = seed_perp
           /\ df' = [df EXCEPT ![s].spot_positions = seed_spot,
                               ![s].perp_positions = seed_perp]
           /\ idx' = s + 1
    /\ pc' = "walk"
    /\ UNCHANGED <<events, snapshots, intervals>>
    /\ UNCHANGED OthersB

\* calculate_backward 797-867, one iteration: undo the row's event, record
\* the result on the row, compare with the row's snapshot and continue from
\* the snapshot when there is one.
UndoStep ==
    /\ pc = "walk"
    /\ idx <= Len(df)
    /\ LET row == df[idx]
           calc_spot == undo_spot_event(current_spot,
                                        row.spot_position_changes,
                                        row.spot_asset_change_ex_position,
                                        EpsHundredths)
           calc_perp == undo_perp_event(current_perp,
                                        row.perp_position_changes,
                                        EpsHundredths)
       IN  /\ df' = [df EXCEPT ![idx].spot_positions = calc_spot,
                               ![idx].perp_positions = calc_perp]
           /\ current_spot' = NextWorking(calc_spot, row.snapshot_spot,
                                          row.is_snapshot_recorded)
           /\ current_perp' = NextWorking(calc_perp, row.snapshot_perp,
                                          row.is_snapshot_recorded)
    /\ idx' = idx + 1
    /\ UNCHANGED <<events, snapshots, pc, start_idx, intervals>>
    /\ UNCHANGED OthersB

\* calculate_backward 890-894: the frame is returned oldest first.
ReverseFrame ==
    /\ pc = "walk"
    /\ idx > Len(df)
    /\ df' = Reverse(df)
    /\ pc' = "done"
    /\ UNCHANGED <<events, snapshots, start_idx, idx, current_spot,
                   current_perp, intervals>>
    /\ UNCHANGED OthersB

\* generate_time_intervals 148-218.
GenerateIntervals ==
    /\ pc = "done"
    /\ intervals' = time_grid(df[1].time, grid_end_timestamp(df), BucketWidth)
    /\ pc' = "grid"
    /\ UNCHANGED <<events, snapshots, df, start_idx, idx, current_spot,
                   current_perp>>
    /\ UNCHANGED OthersB

NextBackward ==
    \/ AbortNoSnapshots
    \/ InsertSnapshots
    \/ SeedWalk
    \/ UndoStep
    \/ ReverseFrame
    \/ GenerateIntervals

\* The other stages at rest.
IdleB ==
    /\ events = <<>>
    /\ snapshots = <<>>
    /\ df = <<>>
    /\ pc = "idle"
    /\ start_idx = 0
    /\ idx = 0
    /\ current_spot = ZeroSpot
    /\ current_perp = ZeroPerp
    /\ intervals = <<>>

IdleF ==
    /\ queue = <<>>
    /\ start_sum = 0
    /\ trade_sum = 0
    /\ shortfall = FALSE
    /\ nops = 0
    /\ last_op = "idle"
    /\ prev_queue = <<>>
    /\ last_amount = 0
    /\ last_pnl = 0

IdleP ==
    /\ positions_df = <<>>
    /\ price_cols = <<>>
    /\ grid = <<>>
    /\ ppc = "idle"
    /\ pidx = 0
    /\ position_queues = <<>>
    /\ residual = <<>>
    /\ realized_pnl = <<>>
    /\ virtual_pnl = <<>>
    /\ perp_account_value = <<>>
    /\ perp_positions_col = <<>>
    /\ warned_mismatches = {}
    /\ warning_log = <<>>
    /\ mismatch_buckets = <<>>

IdleN ==
    /\ spot_account_value = <<>>
    /\ perp_value_col = <<>>
    /\ interval_events = <<>>
    /\ total_assets = <<>>
    /\ total_shares = <<>>
    /\ net_value = <<>>
    /\ cumulative_pnl = <<>>
    /\ npc = "idle"
    /\ nidx = 0
    /\ first_non_zero_idx = 0

IdleR ==
    /\ failure = <<>>
    /\ src_events = <<>>
    /\ src_snapshots = 0
    /\ rpc = "idle"
    /\ loaded = <<>>
    /\ attempt = 0
    /\ sleeps = <<>>
    /\ failed_calls = {}
    /\ run_result = "idle"

IdleG ==
    /\ pg_loader = ""
    /\ pg_source = <<>>
    /\ pg_page = 0
    /\ pg_all = <<>>
    /\ pg_requests = <<>>
    /\ pg_pc = "idle"

IdleK ==
    /\ kl_data = <<>>
    /\ kl_timestamp = 0
    /\ kl_intervals = <<>>
    /\ kl_i = 0
    /\ kl_result = <<>>
    /\ kl_pc = "idle"

IdleS ==
    /\ summary_times = {}
    /\ detail_times = {}

IdleD ==
    /\ db_table = {}
    /\ db_before = {}
    /\ db_address = ""
    /\ db_series = <<>>
    /\ db_incremental = FALSE
    /\ db_stats = <<>>
    /\ db_pc = "idle"

IdleW ==
    /\ sys_stdout = 0
    /\ address_cache = FALSE
    /\ ws_pc = <<>>
    /\ ws_prints = <<>>
    /\ ws_outcome = <<>>
    /\ ws_saved = <<>>
    /\ ws_closed = <<>>
    /\ log_queue = <<>>
    /\ ws_stream = <<>>
    /\ ws_gen = <<>>

IdleO ==
    /\ ow_committed = {}
    /\ ow_txn = {}
    /\ ow_before = {}
    /\ ow_series = <<>>
    /\ ow_i = 0
    /\ ow_batches = 0
    /\ ow_pc = "idle"

IdleU ==
    /\ rt_impact = <<>>
    /\ rt_spot = <<>>
    /\ rt_perp = <<>>
    /\ rt_once = <<>>
    /\ rt_pc = "idle"

\* Timelines of at most MaxEvents events, newest first.
Timelines(times, kinds) ==
    {ev \in UNION {[1..n -> [time : times, kind : kinds]] : n \in 1..MaxEvents} :
        \A i \in 1..(Len(ev) - 1) : ev[i].time >= ev[i + 1].time}

\* Snapshot tables over at most MaxSnaps times, each with its drift.
SnapshotTables(ev, times, noise) ==
    UNION {{[t \in S |-> GroupedSnapshot(ev, t, n[t])] : n \in [S -> noise]} :
            S \in {S0 \in SUBSET times : Cardinality(S0) <= MaxSnaps}}

InitBackwardFrom(times, kinds, snapTimes, noise) ==
    /\ IdleF /\ IdleP /\ IdleN /\ IdleR /\ IdleU /\ IdleG /\ IdleK /\ IdleS /\ IdleD /\ IdleW /\ IdleO
    /\ events \in Timelines(times, kinds)
    /\ snapshots \in SnapshotTables(events, snapTimes, noise)
    /\ df = <<>>
    /\ pc = "start"
    /\ start_idx = 0
    /\ idx = 0
    /\ current_spot = ZeroSpot
    /\ current_perp = ZeroPerp
    /\ intervals = <<>>

InitBackward == InitBackwardFrom(Times, EventKinds, SnapTimes, Noise)

SpecBackward == InitBackward /\ [][NextBackward]_vars

\* Runs whose snapshot index is grouped from an account summary of at most
\* MaxSnaps times, some of them without position and balance rows.
InitSources ==
    /\ IdleF /\ IdleP /\ IdleN /\ IdleR /\ IdleU /\ IdleG /\ IdleK /\ IdleD /\ IdleW /\ IdleO
    /\ events \in Timelines(Times, EventKinds)
    /\ summary_times \in {S \in SUBSET SnapTimes : Cardinality(S) <= MaxSnaps}
    /\ detail_times \in SUBSET summary_times
    /\ snapshots = group_snapshots_by_time(events, summary_times, detail_times)
    /\ df = <<>>
    /\ pc = "start"
    /\ start_idx = 0
    /\ idx = 0
    /\ current_spot = ZeroSpot
    /\ current_perp = ZeroPerp
    /\ intervals = <<>>

SpecSources == InitSources /\ [][NextBackward]_vars

\* The same program over position-neutral events at arbitrary times, for
\* the properties of the bucket grid.
InitGrid == InitBackwardFrom(GridTimes, {"dep"}, GridSnapTimes, {0})

SpecGrid == InitGrid /\ [][NextBackward]_vars

-----------------------------------------------------------------------------
(* event_impact_recorder.py build_timeline, followed by the reconstruction *)
(* above: the event source answers with a list of trades, a list of        *)
(* funding payments and a list of ledger updates, each in the order the    *)
(* source chose.                                                           *)

\* list.sort(key=time, reverse=True): descending, and stable, so that
\* records of equal time keep their order.
RECURSIVE sort_by_time_reverse(_)
sort_by_time_reverse(s) ==
    IF s = <<>> THEN <<>>
    ELSE LET m == SetMax({s[i].time : i \in 1..Len(s)})
         IN  SelectSeq(s, LAMBDA e : e.time = m)
                 \o sort_by_time_reverse(SelectSeq(s, LAMBDA e : e.time # m))

\* The order of the appends in build_timeline.
appended(src) == src.trade \o src.funding \o src.ledger

\* A descending sort that turns records of equal time around.
build_timeline_mut(src) == sort_by_time_reverse(Reverse(appended(src)))

\* build_timeline 113-157
build_timeline(src) == sort_by_time_reverse(appended(src))

\* EventImpactRecorder.__init__ under calculate_backward 704-714.
BuildTimeline ==
    /\ pc = "load"
    /\ events' = build_timeline(src_events)
    /\ pc' = "start"
    /\ UNCHANGED <<snapshots, df, start_idx, idx, current_spot, current_perp,
                   intervals>>
    /\ UNCHANGED OthersB

NextTimeline ==
    \/ BuildTimeline
    \/ InsertSnapshots
    \/ SeedWalk
    \/ UndoStep
    \/ ReverseFrame

\* Lists of at most n events of the given kinds, in any order of time.
SourceLists(kinds, n) ==
    UNION {[1..k -> [time : Times, kind : kinds]] : k \in 0..n}

\* What the source holds: at most two trades, one funding payment and one
\* ledger update, no two of them alike, at least one in all.
TimelineSources ==
    {src \in [trade : SourceLists({"buy", "sell"}, 2),
              funding : SourceLists({"funding"}, 1),
              ledger : SourceLists({"dep"}, 1)] :
        /\ appended(src) # <<>>
        /\ \A i, j \in 1..Len(appended(src)) :
               appended(src)[i] = appended(src)[j] => i = j}

InitTimeline ==
    /\ IdleF /\ IdleP /\ IdleN /\ IdleU /\ IdleG /\ IdleK /\ IdleS /\ IdleD /\ IdleW /\ IdleO
    /\ src_events \in TimelineSources
    /\ snapshots \in SnapshotTables(build_timeline(src_events), SnapTimes, {0})
    /\ DOMAIN snapshots # {}
    /\ events = <<>>
    /\ df = <<>>
    /\ pc = "load"
    /\ start_idx = 0
    /\ idx = 0
    /\ current_spot = ZeroSpot
    /\ current_perp = ZeroPerp
    /\ intervals = <<>>
    /\ failure = <<>>
    /\ src_snapshots = 0
    /\ rpc = "idle"
    /\ loaded = <<>>
    /\ attempt = 0
    /\ sleeps = <<>>
    /\ failed_calls = {}
    /\ run_result = "idle"

SpecTimeline == InitTimeline /\ [][NextTimeline]_vars

-----------------------------------------------------------------------------
(* data_loader.py: the two paginated loaders.  The source pages its        *)
(* records page_size at a time; a snapshot record is an account summary    *)
(* and brings its position rows along on the same page.                    *)

\* What the source answers to the request for a page.
RECURSIVE positions_of(_)
positions_of(records) ==
    IF records = <<>> THEN <<>>
    ELSE [j \in 1..Head(records).positions |-> <<Head(records).id, j>>]
         \o positions_of(Tail(records))

page_of(source, page, size) ==
    LET first == (page - 1) * size + 1
        last == IF page * size < Len(source) THEN page * size ELSE Len(source)
        rows == IF first > last THEN <<>> ELSE SubSeq(source, first, last)
    IN  [rows |-> rows, positions |-> positions_of(rows)]

\* A loader that goes on until a page comes back empty.
more_pages_mut(received, size) == received > 0

\* if len(trades_data) < page_size: break
more_pages(received, size) == ~(received < size)

\* One turn of the while True loop of load_trades and of
\* load_snapshots_from_api: request the page, accumulate it, and go on to
\* the next page unless the page was short.
RequestPage ==
    /\ pg_pc = "request"
    /\ LET data == page_of(pg_source, pg_page, page_size)
           received == Len(data.rows)
       IN  /\ pg_all' = [rows |-> pg_all.rows \o data.rows,
                         positions |-> pg_all.positions \o data.positions]
           /\ pg_requests' = Append(pg_requests, received)
           /\ IF more_pages(received, page_size)
              THEN pg_page' = pg_page + 1 /\ pg_pc' = "request"
              ELSE pg_page' = pg_page /\ pg_pc' = "done"
    /\ UNCHANGED <<pg_loader, pg_source>>
    /\ UNCHANGED OthersG

NextPages == RequestPage

\* Sources of at most MaxRecords records; a trade brings no position rows,
\* an account summary brings up to two.
PagedSources(loader) ==
    LET details == IF loader = "load_trades" THEN {0} ELSE {0, 1, 2}
    IN  UNION {{[i \in 1..n |-> [id |-> i, positions |-> d[i]]] :
                   d \in [1..n -> details]} : n \in 0..MaxRecords}

InitPages ==
    /\ IdleB /\ IdleF /\ IdleP /\ IdleN /\ IdleR /\ IdleU /\ IdleK /\ IdleS /\ IdleD /\ IdleW /\ IdleO
    /\ pg_loader \in {"load_trades", "load_snapshots_from_api"}
    /\ pg_source \in PagedSources(pg_loader)
    /\ pg_page = 1
    /\ pg_all = [rows |-> <<>>, positions |-> <<>>]
    /\ pg_requests = <<>>
    /\ pg_pc = "request"

SpecPages == InitPages /\ [][NextPages]_vars

-----------------------------------------------------------------------------
(* kline_fetcher.py get_price_at_timestamp.  Intervals are numbered from   *)
(* the finest; a candle is known by its interval and its start time.       *)

\* float(candle['o']) of the candle of interval n that starts at t.
candle_open(n, t) == 100 * n + t

\* A choice of the candle nearest to the timestamp on either side.
closest_candle_mut(raw_data, timestamp) ==
    LET nearest == {t \in raw_data :
                       \A u \in raw_data : Abs(t - timestamp) <= Abs(u - timestamp)}
    IN  IF raw_data = {} THEN 0 ELSE SetMax(nearest)

\* Lines 665-677: among the candles with candle['t'] <= timestamp, the one
\* with the least timestamp - candle['t']; 0 = None.
closest_candle(raw_data, timestamp) ==
    LET not_later == {t \in raw_data : t <= timestamp}
    IN  IF not_later = {} THEN 0 ELSE SetMax(not_later)

\* Lines 651-709, one turn of the loop over intervals_to_try: fetch the
\* candles around the timestamp and return the closest one not later than
\* it; with no such candle, no data or a failed fetch go on to the next
\* interval, and return None when there is none left.
TryInterval ==
    /\ kl_pc = "try"
    /\ LET current_interval == kl_intervals[kl_i]
           answer == kl_data[current_interval]
           t == IF answer.ok THEN closest_candle(answer.candles, kl_timestamp)
                ELSE 0
       IN  IF t # 0
           THEN /\ kl_result' = [timestamp |-> t,
                                 open |-> candle_open(current_interval, t),
                                 interval |-> current_interval]
                /\ kl_pc' = "done"
                /\ kl_i' = kl_i
           ELSE /\ kl_result' = <<>>
                /\ kl_i' = kl_i + 1
                /\ kl_pc' = IF kl_i + 1 > Len(kl_intervals) THEN "done"
                            ELSE "try"
    /\ UNCHANGED <<kl_data, kl_timestamp, kl_intervals>>
    /\ UNCHANGED OthersK

NextPrice == TryInterval

\* What fetch_klines answers for an interval: an exception, or the candles
\* it found (possibly none) by their start times.
KlineAnswers ==
    {[ok |-> FALSE, candles |-> {}]}
        \cup {[ok |-> TRUE, candles |-> S] : S \in SUBSET (1..MaxCandleTime)}

InitPrice ==
    /\ IdleB /\ IdleF /\ IdleP /\ IdleN /\ IdleR /\ IdleU /\ IdleG /\ IdleS /\ IdleD /\ IdleW /\ IdleO
    /\ kl_data \in [1..2 -> KlineAnswers]
    /\ kl_timestamp \in 0..MaxCandleTime
    /\ kl_intervals \in {<<1, 2>>, <<2>>, <<1>>}
    /\ kl_i = 1
    /\ kl_result = <<>>
    /\ kl_pc = "try"

SpecPrice == InitPrice /\ [][NextPrice]_vars

-----------------------------------------------------------------------------
(* web/api/calculate.py: the calculation streams.  Every request runs      *)
(* generate(), which starts run_calculation in a thread of the same        *)
(* process and yields what arrives on the request's log_queue; sys.stdout  *)
(* is the one of the process.  scripts/calculate.py calculate_net_value is *)
(* calc_func: it prints its progress and ends by returning None, by        *)
(* returning the series after saving it, by returning the series after a   *)
(* save that raised, or by raising.                                        *)

Requests == 1..MaxRequests

Msg(type, of, n) == [type |-> type, of |-> of, n |-> n]
LogLine(r, n) == Msg("log", r, n)
CalculationSuccess == Msg("__CALCULATION_SUCCESS__", 0, 0)
CalculationFailed == Msg("__CALCULATION_FAILED__", 0, 0)
StreamEnd == Msg("__STREAM_END__", 0, 0)
Complete(success) == Msg("complete", 0, IF success THEN 1 ELSE 0)

\* print(...) is sys.stdout.write(text): LogCapture.write (81-87) puts the
\* text on the queue of the capture sys.stdout is bound to, unless that
\* capture is closed; the original stream queues nothing.
write(queues, closed, target, writer, text) ==
    IF target = 0 \/ closed[target] THEN queues
    ELSE [queues EXCEPT ![target] = Append(@, text)]

\* run_calculation 129-144 and 146-154: result is not None exactly when
\* calc_func returned the series, saved or not.
completion_signal(outcome) ==
    IF outcome \in {"saved", "save_failed"} THEN CalculationSuccess
    ELSE CalculationFailed

\* A generator that passes the success signal on as a log message.
event_of_mut(log_msg) ==
    IF log_msg = CalculationFailed THEN Complete(FALSE) ELSE log_msg

\* generate 184-190: the event yielded for a message of the queue.
event_of(log_msg) ==
    IF log_msg = CalculationSuccess THEN Complete(TRUE)
    ELSE IF log_msg = CalculationFailed THEN Complete(FALSE)
    ELSE log_msg

\* run_calculation 114-115.
Redirect(r) ==
    /\ ws_pc[r] = "redirect"
    /\ sys_stdout' = r
    /\ ws_pc' = [ws_pc EXCEPT ![r] = "calc"]
    /\ UNCHANGED <<address_cache, ws_prints, ws_outcome, ws_saved, ws_closed,
                   log_queue, ws_stream, ws_gen>>
    /\ UNCHANGED OthersW

\* calc_func prints a line of progress.
CalcPrint(r) ==
    /\ ws_pc[r] = "calc"
    /\ ws_prints[r] < MaxPrints
    /\ ws_prints' = [ws_prints EXCEPT ![r] = @ + 1]
    /\ log_queue' = write(log_queue, ws_closed, sys_stdout, r,
                          LogLine(r, ws_prints[r] + 1))
    /\ UNCHANGED <<sys_stdout, address_cache, ws_pc, ws_outcome, ws_saved,
                   ws_closed, ws_stream, ws_gen>>
    /\ UNCHANGED OthersW

\* scripts/calculate.py 84-105 and 241-253: a stage fails or an exception is
\* caught; calc_func returns None.
CalcReturnsNone(r) ==
    /\ ws_pc[r] = "calc"
    /\ ws_outcome' = [ws_outcome EXCEPT ![r] = "failed"]
    /\ ws_pc' = [ws_pc EXCEPT ![r] = "signal"]
    /\ UNCHANGED <<sys_stdout, address_cache, ws_prints, ws_saved, ws_closed,
                   log_queue, ws_stream, ws_gen>>
    /\ UNCHANGED OthersW

\* scripts/calculate.py 130-216, 239: the series is saved and returned.
CalcSaves(r) ==
    /\ ws_pc[r] = "calc"
    /\ ws_outcome' = [ws_outcome EXCEPT ![r] = "saved"]
    /\ ws_saved' = [ws_saved EXCEPT ![r] = TRUE]
    /\ ws_pc' = [ws_pc EXCEPT ![r] = "signal"]
    /\ UNCHANGED <<sys_stdout, address_cache, ws_prints, ws_closed,
                   log_queue, ws_stream, ws_gen>>
    /\ UNCHANGED OthersW

\* scripts/calculate.py 136-221, 239: the save raises; the handler of 218-221
\* prints the failure and the series is returned all the same.
CalcSaveFails(r) ==
    /\ ws_pc[r] = "calc"
    /\ ws_outcome' = [ws_outcome EXCEPT ![r] = "save_failed"]
    /\ ws_prints' = [ws_prints EXCEPT ![r] = @ + 1]
    /\ log_queue' = write(log_queue, ws_closed, sys_stdout, r,
                          LogLine(r, ws_prints[r] + 1))
    /\ ws_pc' = [ws_pc EXCEPT ![r] = "signal"]
    /\ UNCHANGED <<sys_stdout, address_cache, ws_saved, ws_closed,
                   ws_stream, ws_gen>>
    /\ UNCHANGED OthersW

\* An exception leaves the try block of run_calculation.
CalcRaises(r) ==
    /\ ws_pc[r] = "calc"
    /\ ws_outcome' = [ws_outcome EXCEPT ![r] = "raised"]
    /\ ws_pc' = [ws_pc EXCEPT ![r] = "signal"]
    /\ UNCHANGED <<sys_stdout, address_cache, ws_prints, ws_saved, ws_closed,
                   log_queue, ws_stream, ws_gen>>
    /\ UNCHANGED OthersW

\* run_calculation 129-154: the cache message (138-140) and the error
\* message (149-150) are put on the request's own queue, then the
\* completion signal.
Signal(r) ==
    /\ ws_pc[r] = "signal"
    /\ LET result_is_series == ws_outcome[r] \in {"saved", "save_failed"}
           own_log == (result_is_series /\ ~address_cache)
                          \/ ws_outcome[r] = "raised"
           logged == IF own_log
                     THEN Append(log_queue[r], LogLine(r, ws_prints[r] + 1))
                     ELSE log_queue[r]
       IN  /\ log_queue' = [log_queue EXCEPT ![r] =
                               Append(logged, completion_signal(ws_outcome[r]))]
           /\ ws_prints' = [ws_prints EXCEPT ![r] =
                               IF own_log THEN @ + 1 ELSE @]
           /\ address_cache' = (address_cache \/ result_is_series)
    /\ ws_pc' = [ws_pc EXCEPT ![r] = "close"]
    /\ UNCHANGED <<sys_stdout, ws_outcome, ws_saved, ws_closed, ws_stream,
                   ws_gen>>
    /\ UNCHANGED OthersW

\* run_calculation 157-160.
CloseCapture(r) ==
    /\ ws_pc[r] = "close"
    /\ ws_closed' = [ws_closed EXCEPT ![r] = TRUE]
    /\ ws_pc' = [ws_pc EXCEPT ![r] = "restore"]
    /\ UNCHANGED <<sys_stdout, address_cache, ws_prints, ws_outcome, ws_saved,
                   log_queue, ws_stream, ws_gen>>
    /\ UNCHANGED OthersW

\* run_calculation 163-169.
RestoreStdout(r) ==
    /\ ws_pc[r] = "restore"
    /\ sys_stdout' = 0
    /\ ws_pc' = [ws_pc EXCEPT ![r] = "end"]
    /\ UNCHANGED <<address_cache, ws_prints, ws_outcome, ws_saved, ws_closed,
                   log_queue, ws_stream, ws_gen>>
    /\ UNCHANGED OthersW

\* run_calculation 171.
PutStreamEnd(r) ==
    /\ ws_pc[r] = "end"
    /\ log_queue' = [log_queue EXCEPT ![r] = Append(@, StreamEnd)]
    /\ ws_pc' = [ws_pc EXCEPT ![r] = "done"]
    /\ UNCHANGED <<sys_stdout, address_cache, ws_prints, ws_outcome, ws_saved,
                   ws_closed, ws_stream, ws_gen>>
    /\ UNCHANGED OthersW

\* generate 179-190, one turn of the loop.
Deliver(r) ==
    /\ ws_gen[r] = "wait"
    /\ log_queue[r] # <<>>
    /\ LET log_msg == Head(log_queue[r])
       IN  IF log_msg = StreamEnd
           THEN /\ ws_gen' = [ws_gen EXCEPT ![r] = "ended"]
                /\ ws_stream' = ws_stream
           ELSE /\ ws_stream' = [ws_stream EXCEPT ![r] =
                                    Append(@, event_of(log_msg))]
                /\ ws_gen' = ws_gen
    /\ log_queue' = [log_queue EXCEPT ![r] = Tail(@)]
    /\ UNCHANGED <<sys_stdout, address_cache, ws_pc, ws_prints, ws_outcome,
                   ws_saved, ws_closed>>
    /\ UNCHANGED OthersW

NextWeb ==
    \E r \in Requests :
        \/ Redirect(r)
        \/ CalcPrint(r)
        \/ CalcReturnsNone(r)
        \/ CalcSaves(r)
        \/ CalcSaveFails(r)
        \/ CalcRaises(r)
        \/ Signal(r)
        \/ CloseCapture(r)
        \/ RestoreStdout(r)
        \/ PutStreamEnd(r)
        \/ Deliver(r)

\* One request, or MaxRequests requests at the same time.
InitWeb ==
    /\ IdleB /\ IdleF /\ IdleP /\ IdleN /\ IdleR /\ IdleU /\ IdleG /\ IdleK /\ IdleS /\ IdleD /\ IdleO
    /\ sys_stdout = 0
    /\ address_cache \in BOOLEAN
    /\ \E n \in Requests :
           /\ ws_pc = [r \in Requests |-> IF r <= n THEN "redirect" ELSE "idle"]
           /\ ws_gen = [r \in Requests |-> IF r <= n THEN "wait" ELSE "idle"]
    /\ ws_prints = [r \in Requests |-> 0]
    /\ ws_outcome = [r \in Requests |-> "none"]
    /\ ws_saved = [r \in Requests |-> FALSE]
    /\ ws_closed = [r \in Requests |-> FALSE]
    /\ log_queue = [r \in Requests |-> <<>>]
    /\ ws_stream = [r \in Requests |-> <<>>]

SpecWeb == InitWeb /\ [][NextWeb]_vars

\* Every thread that can take a step eventually takes one.
SpecWebFair == SpecWeb /\ WF_vars(NextWeb)

-----------------------------------------------------------------------------
(* net_value_timescale_manager.py save_net_value_data.  A stored row is    *)
(* [address, time, value], value standing for the eight value columns; the *)
(* table has a unique index on (address, time).                            *)

Addresses == {"a1", "a2"}
BucketTimes == 1..MaxBucketTime
RowValues == {1, 2}

\* MAX(time) over the whole table, whatever the address.
latest_timestamp_mut(table, address) ==
    IF table = {} THEN 0
    ELSE SetMax({r.time : r \in table})

\* Lines 395-402: SELECT MAX(time) ... WHERE address = %s; 0 stands for
\* None (bucket times are positive).
latest_timestamp(table, address) ==
    LET stored == {r.time : r \in {r0 \in table : r0.address = address}}
    IN  IF stored = {} THEN 0 ELSE SetMax(stored)

\* Lines 408-418: the rows of df kept for insertion.
df_to_insert(series, incremental, latest) ==
    IF incremental /\ latest # 0
    THEN SelectSeq(series, LAMBDA row : row.timestamp > latest)
    ELSE series

\* Lines 464-495: INSERT ... ON CONFLICT (address, time) DO NOTHING, row by
\* row in the order of data_list.
RECURSIVE insert_rows(_, _, _, _)
insert_rows(table, address, rows, i) ==
    IF i > Len(rows) THEN table
    ELSE LET row == [address |-> address, time |-> rows[i].timestamp,
                     value |-> rows[i].value]
             conflict == \E r \in table :
                             r.address = address /\ r.time = row.time
         IN  insert_rows(IF conflict THEN table ELSE table \cup {row},
                         address, rows, i + 1)

\* save_net_value_data 350-518.
SaveNetValueData ==
    /\ db_pc = "save"
    /\ LET latest == IF db_incremental
                     THEN latest_timestamp(db_table, db_address) ELSE 0
           rows == df_to_insert(db_series, db_incremental, latest)
           skipped_count == Len(db_series) - Len(rows)
           kept == IF db_incremental THEN db_table
                   ELSE {r \in db_table : r.address # db_address}
       IN  IF Len(rows) = 0
           THEN /\ db_table' = db_table
                /\ db_stats' = [inserted |-> 0, skipped |-> skipped_count,
                                total |-> Len(db_series)]
           ELSE /\ db_table' = insert_rows(kept, db_address, rows, 1)
                /\ db_stats' = [inserted |-> Len(rows),
                                skipped |-> skipped_count,
                                total |-> Len(db_series)]
    /\ db_before' = db_table
    /\ db_pc' = "done"
    /\ UNCHANGED <<db_address, db_series, db_incremental>>
    /\ UNCHANGED OthersD

NextSave == SaveNetValueData

\* Tables with at most one row per (address, time).
StoredTables ==
    UNION {{{[address |-> k[1], time |-> k[2], value |-> v[k]] : k \in K} :
                v \in [K -> RowValues]} :
            K \in SUBSET (Addresses \X BucketTimes)}

\* Series over a set of bucket times, oldest first.
RECURSIVE SortedTimes(_)
SortedTimes(S) ==
    IF S = {} THEN <<>>
    ELSE <<SetMin(S)>> \o SortedTimes(S \ {SetMin(S)})

SeriesOver(S) ==
    {[i \in 1..Cardinality(S) |->
         [timestamp |-> SortedTimes(S)[i], value |-> v[i]]] :
        v \in [1..Cardinality(S) -> RowValues]}

InitSave ==
    /\ IdleB /\ IdleF /\ IdleP /\ IdleN /\ IdleR /\ IdleU /\ IdleG /\ IdleK /\ IdleS /\ IdleW /\ IdleO
    /\ db_table \in StoredTables
    /\ db_before = {}
    /\ db_address = "a1"
    /\ db_series \in UNION {SeriesOver(S) : S \in SUBSET BucketTimes}
    /\ db_incremental \in BOOLEAN
    /\ db_stats = <<>>
    /\ db_pc = "save"

SpecSave == InitSave /\ [][NextSave]_vars

-----------------------------------------------------------------------------
(* save_net_value_data with incremental = False, statement by statement.   *)
(* A row of the series stands for one batch of batch_size rows; the k-th   *)
(* batch is stamped k.  Stored rows carry the value 1, new rows the        *)
(* value 2.                                                                *)

commit_interval == 5

StoredRow(address, time) == [address |-> address, time |-> time, value |-> 1]
SeriesRow(address, time) == [address |-> address, time |-> time, value |-> 2]

OfAddress(table, address) == {r \in table : r.address = address}

\* Line 493: batches_since_commit >= commit_interval or the batch is the
\* last one.
commit_due(batches_since_commit, i, n) ==
    batches_since_commit >= commit_interval \/ i >= n

\* Lines 407-446: nothing to insert returns at once; otherwise the rows of
\* the address are deleted in the transaction.
BeginOverwrite ==
    /\ ow_pc = "start"
    /\ IF Len(ow_series) = 0
       THEN /\ ow_pc' = "returned"
            /\ UNCHANGED <<ow_txn, ow_i>>
       ELSE /\ ow_txn' = {r \in ow_txn : r.address # "a1"}
            /\ ow_i' = 1
            /\ ow_pc' = "batch"
    /\ UNCHANGED <<ow_committed, ow_before, ow_series, ow_batches>>
    /\ UNCHANGED OthersO

\* Lines 478-495, one turn of the loop: the batch is inserted and the
\* transaction committed when due.
InsertBatch ==
    /\ ow_pc = "batch"
    /\ LET row == [address |-> "a1", time |-> ow_series[ow_i].timestamp,
                   value |-> ow_series[ow_i].value]
           conflict == \E r \in ow_txn : r.address = "a1" /\ r.time = row.time
           inserted == IF conflict THEN ow_txn ELSE ow_txn \cup {row}
           due == commit_due(ow_batches + 1, ow_i, Len(ow_series))
       IN  /\ ow_txn' = inserted
           /\ ow_committed' = IF due THEN inserted ELSE ow_committed
           /\ ow_batches' = IF due THEN 0 ELSE ow_batches + 1
    /\ ow_i' = ow_i + 1
    /\ ow_pc' = IF ow_i >= Len(ow_series) THEN "returned" ELSE "batch"
    /\ UNCHANGED <<ow_before, ow_series>>
    /\ UNCHANGED OthersO

\* Lines 520-525: a statement raises; the open transaction is rolled back
\* and the exception passed on.
SaveRaises ==
    /\ ow_pc \in {"start", "batch"}
    /\ ow_txn' = ow_committed
    /\ ow_pc' = "raised"
    /\ UNCHANGED <<ow_committed, ow_before, ow_series, ow_i, ow_batches>>
    /\ UNCHANGED OthersO

NextOverwrite ==
    \/ BeginOverwrite
    \/ InsertBatch
    \/ SaveRaises

\* The stored series of the address covers 0..MaxBucketTime batches, the new
\* one 0..MaxBatches; another address holds a row of its own.
InitOverwrite ==
    /\ IdleB /\ IdleF /\ IdleP /\ IdleN /\ IdleR /\ IdleU /\ IdleG /\ IdleK /\ IdleS /\ IdleD /\ IdleW
    /\ \E p \in 0..MaxBucketTime :
           ow_before = {StoredRow("a1", t) : t \in 1..p}
    /\ ow_committed = ow_before \cup {StoredRow("a2", 1)}
    /\ ow_txn = ow_committed
    /\ \E n \in 0..MaxBatches :
           ow_series = [k \in 1..n |-> [timestamp |-> k, value |-> 2]]
    /\ ow_i = 0
    /\ ow_batches = 0
    /\ ow_pc = "start"

SpecOverwrite == InitOverwrite /\ [][NextOverwrite]_vars

-----------------------------------------------------------------------------
(* One impact applied to a position, undone by undo_spot_event and         *)
(* undo_perp_event as calculate_backward calls them, and applied again.    *)
(* Amounts are counted in units of 0.5e-10 coin here, so that holdings on  *)
(* either side of the zero threshold can be told apart.                    *)

\* Holdings: nothing, a few units around the threshold, or a whole lot.
UndoRedoAmounts == (0..MaxDust) \cup {WholeLot}
\* A spot book holds no negative balance, before the event or after it.
UndoRedoSpot == [SpotCoins -> UndoRedoAmounts \cup {3 * WholeLot}]
UndoRedoPerp == [PerpCoins -> UndoRedoAmounts \cup {-a : a \in UndoRedoAmounts}]

\* The impacts of a perp trade, of a spot trade with its fee in USDC, and
\* of a deposit.
UndoRedoImpacts ==
    {PerpTradeImpact(sd, sz) : sd \in {"B", "A"}, sz \in {MaxDust, WholeLot}}
    \cup {SpotTradeImpact(sd, sz, px, fee) :
              sd \in {"B", "A"}, sz \in {MaxDust, WholeLot},
              px \in {1, 2}, fee \in {0, 1, MaxDust}}
    \cup {DepositImpact}

\* The event happens: either book moves by the event's impact.
ApplyImpact ==
    /\ rt_pc \in {"apply", "redo"}
    /\ rt_spot' = ApplySpot(rt_spot, rt_impact)
    /\ rt_perp' = ApplyPerp(rt_perp, rt_impact)
    /\ rt_once' = IF rt_pc = "apply"
                  THEN [spot |-> rt_spot', perp |-> rt_perp']
                  ELSE rt_once
    /\ rt_pc' = IF rt_pc = "apply" THEN "undo" ELSE "done"
    /\ UNCHANGED rt_impact
    /\ UNCHANGED OthersU

\* calculate_backward 797-812: the event is undone in both books.
UndoImpact ==
    /\ rt_pc = "undo"
    /\ rt_spot' = undo_spot_event(rt_spot, rt_impact.spot_position_changes,
                                  rt_impact.spot_asset_change_ex_position,
                                  EpsFine)
    /\ rt_perp' = undo_perp_event(rt_perp, rt_impact.perp_position_changes,
                                  EpsFine)
    /\ rt_pc' = "redo"
    /\ UNCHANGED <<rt_impact, rt_once>>
    /\ UNCHANGED OthersU

NextUndoRedo ==
    \/ ApplyImpact
    \/ UndoImpact

InitUndoRedo ==
    /\ IdleB /\ IdleF /\ IdleP /\ IdleN /\ IdleR /\ IdleG /\ IdleK /\ IdleS /\ IdleD /\ IdleW /\ IdleO
    /\ rt_impact \in UndoRedoImpacts
    /\ rt_spot \in UndoRedoSpot
    /\ \A c \in SpotCoins : ApplySpot(rt_spot, rt_impact)[c] >= 0
    /\ rt_perp \in UndoRedoPerp
    /\ rt_once = <<>>
    /\ rt_pc = "apply"

SpecUndoRedo == InitUndoRedo /\ [][NextUndoRedo]_vars

-----------------------------------------------------------------------------
(* caculate_net_value_v2.py: the FIFO lot queue.  A lot is                 *)
(* [price, amount], amount > 0 long and amount < 0 short.  Every operation *)
(* returns the new queue, the realized PnL and the amount it could not     *)
(* match.                                                                  *)

Lot(p, a) == [price |-> p, amount |-> a]

FifoResult(q, pnl, rest) == [queue |-> q, realized_pnl |-> pnl, to_close |-> rest]

\* queue.pop(i)
Pop(q, i) == [k \in 1..(Len(q) - 1) |-> IF k < i THEN q[k] ELSE q[k + 1]]

Min(a, b) == IF a <= b THEN a ELSE b

RECURSIVE SumAmounts(_)
SumAmounts(q) == IF q = <<>> THEN 0 ELSE Head(q).amount + SumAmounts(Tail(q))

\* sum(amt for _, amt in queue if amt > 1e-10)
RECURSIVE current_long(_)
current_long(q) ==
    IF q = <<>> THEN 0
    ELSE (IF Head(q).amount > 0 THEN Head(q).amount ELSE 0) + current_long(Tail(q))

\* sum(abs(amt) for _, amt in queue if amt < -1e-10)
RECURSIVE current_short(_)
current_short(q) ==
    IF q = <<>> THEN 0
    ELSE (IF Head(q).amount < 0 THEN -Head(q).amount ELSE 0) + current_short(Tail(q))

process_open_long(q, amount, price) ==
    FifoResult(Append(q, Lot(price, amount)), 0, 0)

process_open_short(q, amount, price) ==
    FifoResult(Append(q, Lot(price, -amount)), 0, 0)

\* The while loop of _process_close_long.
RECURSIVE close_long_loop(_, _, _, _, _)
close_long_loop(q, i, to_close, price, pnl) ==
    IF ~(to_close > 0 /\ i <= Len(q)) THEN FifoResult(q, pnl, to_close)
    ELSE IF q[i].amount > 0
         THEN IF q[i].amount <= to_close
              THEN close_long_loop(Pop(q, i), i, to_close - q[i].amount, price,
                                   pnl + (price - q[i].price) * q[i].amount)
              ELSE close_long_loop([q EXCEPT ![i].amount = @ - to_close], i, 0,
                                   price, pnl + (price - q[i].price) * to_close)
         ELSE close_long_loop(q, i + 1, to_close, price, pnl)

\* A close that re-prices the lots it leaves at the close price.
process_close_long_mut(q, amount, price) ==
    LET r == close_long_loop(q, 1, amount, price, 0)
    IN  [r EXCEPT !.queue = [k \in 1..Len(r.queue) |->
                                Lot(price, r.queue[k].amount)]]

process_close_long(q, amount, price) == close_long_loop(q, 1, amount, price, 0)

\* The while loop of _process_close_short.
RECURSIVE close_short_loop(_, _, _, _, _)
close_short_loop(q, i, to_close, price, pnl) ==
    IF ~(to_close > 0 /\ i <= Len(q)) THEN FifoResult(q, pnl, to_close)
    ELSE IF q[i].amount < 0
         THEN LET close_amount == Min(-q[i].amount, to_close)
                  pnl2 == pnl + (q[i].price - price) * close_amount
              IN  IF -q[i].amount <= to_close
                  THEN close_short_loop(Pop(q, i), i, to_close + q[i].amount,
                                        price, pnl2)
                  ELSE close_short_loop([q EXCEPT ![i].amount = @ + to_close],
                                        i, 0, price, pnl2)
         ELSE close_short_loop(q, i + 1, to_close, price, pnl)

\* A short close whose PnL keeps the sign of a long close.
process_close_short_mut(q, amount, price) ==
    LET r == close_short_loop(q, 1, amount, price, 0)
    IN  [r EXCEPT !.realized_pnl = -@]

process_close_short(q, amount, price) == close_short_loop(q, 1, amount, price, 0)

\* The while loop of _process_short_to_long; returns the amount closed in
\* the to_close field.
RECURSIVE short_to_long_loop(_, _, _, _, _, _)
short_to_long_loop(q, i, closed, to_close, price, pnl) ==
    IF ~(closed < to_close /\ i <= Len(q)) THEN FifoResult(q, pnl, closed)
    ELSE IF q[i].amount < 0
         THEN LET close_amount == Min(-q[i].amount, to_close - closed)
                  pnl2 == pnl + (q[i].price - price) * close_amount
              IN  IF -q[i].amount <= close_amount
                  THEN short_to_long_loop(Pop(q, i), i, closed + close_amount,
                                          to_close, price, pnl2)
                  ELSE short_to_long_loop(
                           [q EXCEPT ![i].amount = @ + close_amount], i + 1,
                           closed + close_amount, to_close, price, pnl2)
         ELSE short_to_long_loop(q, i + 1, closed, to_close, price, pnl)

\* A flip that opens the whole traded amount, whatever it closed.
process_short_to_long_mut(q, amount, price) ==
    LET cs == current_short(q)
        r == IF cs > 0
             THEN short_to_long_loop(q, 1, 0, Min(cs, amount), price, 0)
             ELSE FifoResult(q, 0, 0)
    IN  FifoResult(Append(r.queue, Lot(price, amount)), r.realized_pnl, 0)

process_short_to_long(q, amount, price) ==
    LET cs == current_short(q)
        r == IF cs > 0
             THEN short_to_long_loop(q, 1, 0, Min(cs, amount), price, 0)
             ELSE FifoResult(q, 0, 0)
        long_amount == amount - cs
    IN  FifoResult(IF long_amount > 0
                   THEN Append(r.queue, Lot(price, long_amount))
                   ELSE r.queue,
                   r.realized_pnl, 0)

\* The while loop of _process_long_to_short.
RECURSIVE long_to_short_loop(_, _, _, _, _, _)
long_to_short_loop(q, i, closed, to_close, price, pnl) ==
    IF ~(closed < to_close /\ i <= Len(q)) THEN FifoResult(q, pnl, closed)
    ELSE IF q[i].amount > 0
         THEN LET close_amount == Min(q[i].amount, to_close - closed)
                  pnl2 == pnl + (price - q[i].price) * close_amount
              IN  IF q[i].amount <= close_amount
                  THEN long_to_short_loop(Pop(q, i), i, closed + close_amount,
                                          to_close, price, pnl2)
                  ELSE long_to_short_loop(
                           [q EXCEPT ![i].amount = @ - close_amount], i + 1,
                           closed + close_amount, to_close, price, pnl2)
         ELSE long_to_short_loop(q, i + 1, closed, to_close, price, pnl)

process_long_to_short(q, amount, price) ==
    LET cl == current_long(q)
        r == IF cl > 0
             THEN long_to_short_loop(q, 1, 0, Min(cl, amount), price, 0)
             ELSE FifoResult(q, 0, 0)
        short_amount == amount - cl
    IN  FifoResult(IF short_amount > 0
                   THEN Append(r.queue, Lot(price, -short_amount))
                   ELSE r.queue,
                   r.realized_pnl, 0)

\* _process_auto_deleveraging: by side when given, else by the direction of
\* the first non-zero lot.
process_auto_deleveraging(q, amount, price, side) ==
    IF q = <<>> THEN FifoResult(q, 0, 0)
    ELSE IF side = "B" THEN process_close_short(q, amount, price)
    ELSE IF side = "A" THEN process_close_long(q, amount, price)
    ELSE LET nz == {i \in 1..Len(q) : q[i].amount # 0}
         IN  IF nz = {} THEN FifoResult(q, 0, 0)
             ELSE IF q[SetMin(nz)].amount > 0
                  THEN process_close_long(q, amount, price)
                  ELSE process_close_short(q, amount, price)

\* _process_liquidation: 'Long' in dir_type / 'Short' in dir_type.
process_liquidation(q, amount, price, dir_type) ==
    IF dir_type = "Liquidated Cross Long" THEN process_close_long(q, amount, price)
    ELSE IF dir_type = "Liquidated Cross Short"
         THEN process_close_short(q, amount, price)
    ELSE FifoResult(q, 0, 0)

\* _process_settlement: every lot is closed at the settlement price.
RECURSIVE settlement_pnl(_, _)
settlement_pnl(q, price) ==
    IF q = <<>> THEN 0
    ELSE (price - Head(q).price) * Head(q).amount + settlement_pnl(Tail(q), price)

process_settlement(q, amount, price) == FifoResult(<<>>, settlement_pnl(q, price), 0)

\* calculate_perp_account_value 1070-1108: dispatch on the trade's dir.
apply_trade(q, trade) ==
    CASE trade.dir = "Open Long"  -> process_open_long(q, trade.amount, trade.price)
      [] trade.dir = "Open Short" -> process_open_short(q, trade.amount, trade.price)
      [] trade.dir = "Close Long" -> process_close_long(q, trade.amount, trade.price)
      [] trade.dir = "Close Short" -> process_close_short(q, trade.amount, trade.price)
      [] trade.dir = "Short > Long" -> process_short_to_long(q, trade.amount, trade.price)
      [] trade.dir = "Long > Short" -> process_long_to_short(q, trade.amount, trade.price)
      [] trade.dir = "Auto-Deleveraging" ->
            process_auto_deleveraging(q, trade.amount, trade.price, trade.side)
      [] trade.dir \in {"Liquidated Cross Long", "Liquidated Cross Short"} ->
            process_liquidation(q, trade.amount, trade.price, trade.dir)
      [] trade.dir = "Settlement" -> process_settlement(q, trade.amount, trade.price)
      [] OTHER -> FifoResult(q, 0, 0)

-----------------------------------------------------------------------------
(* One lot queue under an arbitrary sequence of operations.                *)

StartLotPrice == 10
OpPrice == 12
StartAmounts == {-2, -1, 1, 2}
OpAmounts == 1..MaxAmount

StartQueues ==
    UNION {[1..n -> {Lot(StartLotPrice, a) : a \in StartAmounts}] : n \in 0..MaxLots}

InitFifo ==
    /\ IdleB /\ IdleP /\ IdleN /\ IdleR /\ IdleU /\ IdleG /\ IdleK /\ IdleS /\ IdleD /\ IdleW /\ IdleO
    /\ queue \in StartQueues
    /\ start_sum = SumAmounts(queue)
    /\ trade_sum = 0
    /\ shortfall = FALSE
    /\ nops = 0
    /\ last_op = "none"
    /\ prev_queue = <<>>
    /\ last_amount = 0
    /\ last_pnl = 0

\* One trade applied to the queue; signed is the trade's effect on the
\* position.
FifoStep(dir, amount, signed) ==
    /\ LET r == apply_trade(queue, [dir |-> dir, amount |-> amount,
                                    price |-> OpPrice, side |-> ""])
       IN  /\ queue' = r.queue
           /\ shortfall' = (shortfall \/ r.to_close > 0)
           /\ last_pnl' = r.realized_pnl
    /\ prev_queue' = queue
    /\ last_amount' = amount
    /\ trade_sum' = trade_sum + signed
    /\ nops' = nops + 1
    /\ last_op' = dir
    /\ UNCHANGED <<start_sum>>
    /\ UNCHANGED OthersF

OpenLong ==
    \E a \in OpAmounts :
        /\ nops < MaxOps
        /\ FifoStep("Open Long", a, a)

OpenShort ==
    \E a \in OpAmounts :
        /\ nops < MaxOps
        /\ FifoStep("Open Short", a, -a)

CloseLong ==
    \E a \in OpAmounts :
        /\ nops < MaxOps
        /\ FifoStep("Close Long", a, -a)

CloseShort ==
    \E a \in OpAmounts :
        /\ nops < MaxOps
        /\ FifoStep("Close Short", a, a)

ShortToLong ==
    \E a \in OpAmounts :
        /\ nops < MaxOps
        /\ FifoStep("Short > Long", a, a)

LongToShort ==
    \E a \in OpAmounts :
        /\ nops < MaxOps
        /\ FifoStep("Long > Short", a, -a)


NextFifo ==
    \/ OpenLong
    \/ OpenShort
    \/ CloseLong
    \/ CloseShort
    \/ ShortToLong
    \/ LongToShort

SpecFifo == InitFifo /\ [][NextFifo]_vars

-----------------------------------------------------------------------------
(* caculate_net_value_v2.py: the perpetual valuation, bucket by bucket.    *)
(* A timeline row is a fill (coin, side, amount, dir as labelled by the    *)
(* exchange from the position held before it) or a funding payment (no     *)
(* coin); every row carries the perp position held before it.              *)

MaxRows == 3
PerpMaxTime == 5
MaxSize == 2

BookCoins == {"BTC", "ETH"}
EmptyBook == [c \in BookCoins |-> 0]
NoQueues == [c \in BookCoins |-> <<>>]

RECURSIVE SumOver(_, _)
SumOver(f, S) ==
    IF S = {} THEN 0
    ELSE LET x == CHOOSE y \in S : TRUE
         IN  f[x] + SumOver(f, S \ {x})

\* The dir the exchange puts on a fill of sz on side when the coin's
\* position before it is p.
trade_dir(p, side, sz) ==
    IF side = "B"
    THEN IF p >= 0 THEN "Open Long"
         ELSE IF sz <= -p THEN "Close Short" ELSE "Short > Long"
    ELSE IF p <= 0 THEN "Open Short"
         ELSE IF sz <= p THEN "Close Long" ELSE "Long > Short"

Fills ==
    {[coin |-> "", side |-> "", sz |-> 0]}
        \cup {[coin |-> "BTC", side |-> s, sz |-> z] : s \in {"B", "A"}, z \in 1..MaxSize}
        \cup {[coin |-> "ETH", side |-> s, sz |-> 1] : s \in {"B", "A"}}

\* The rows calculate_backward hands over, oldest first: each with the perp
\* position before it.
RECURSIVE BuildRows(_, _, _)
BuildRows(times, fills, pos) ==
    IF fills = <<>> THEN <<>>
    ELSE LET f == Head(fills)
             row == [timestamp |-> Head(times),
                     coin |-> f.coin,
                     amount |-> f.sz,
                     price |-> 10 + Head(times),
                     dir |-> IF f.coin = "" THEN ""
                             ELSE trade_dir(pos[f.coin], f.side, f.sz),
                     side |-> f.side,
                     perp_asset_change |-> IF f.coin = "" THEN 1 ELSE 0,
                     perp_positions |-> pos]
             after == IF f.coin = "" THEN pos
                      ELSE [pos EXCEPT ![f.coin] =
                                @ + (IF f.side = "B" THEN f.sz ELSE -f.sz)]
         IN  <<row>> \o BuildRows(Tail(times), Tail(fills), after)

\* _find_position_before(target, 'perp'): the position column of the last
\* row among those with the greatest timestamp <= target.
find_position_before(rows, target_timestamp) ==
    LET before == {i \in 1..Len(rows) : rows[i].timestamp <= target_timestamp}
    IN  IF before = {} THEN EmptyBook
        ELSE LET max_timestamp == SetMax({rows[i].timestamp : i \in before})
                 same_ts == {i \in before : rows[i].timestamp = max_timestamp}
             IN  rows[SetMax(same_ts)].perp_positions

\* _get_trades_in_interval: rows in (start, end] that carry a perp change.
get_trades_in_interval(rows, start_timestamp, end_timestamp) ==
    SelectSeq(rows, LAMBDA r : /\ r.timestamp > start_timestamp
                               /\ r.timestamp <= end_timestamp
                               /\ r.coin # "")

\* _get_perp_asset_changes_in_interval
RECURSIVE get_perp_asset_changes_in_interval(_, _, _)
get_perp_asset_changes_in_interval(rows, start_timestamp, end_timestamp) ==
    IF rows = <<>> THEN 0
    ELSE (IF /\ Head(rows).timestamp > start_timestamp
             /\ Head(rows).timestamp <= end_timestamp
          THEN Head(rows).perp_asset_change ELSE 0)
         + get_perp_asset_changes_in_interval(Tail(rows), start_timestamp,
                                              end_timestamp)

get_trade_priority(dir_type) ==
    IF dir_type \in {"Open Long", "Open Short"} THEN 1
    ELSE IF dir_type \in {"Short > Long", "Long > Short"} THEN 2
    ELSE IF dir_type \in {"Close Long", "Close Short"} THEN 3
    ELSE IF dir_type \in {"Auto-Deleveraging", "Settlement",
                          "Liquidated Cross Long", "Liquidated Cross Short"}
         THEN 4
    ELSE 5

trades_of_coin(trades_list, coin) ==
    SelectSeq(trades_list, LAMBDA t : t.coin = coin)

\* sorted(coin_trades, key=get_trade_priority): a stable sort.
coin_trades_sorted(coin_trades) ==
    LET of_priority(p) ==
            SelectSeq(coin_trades, LAMBDA t : get_trade_priority(t.dir) = p)
    IN  of_priority(1) \o of_priority(2) \o of_priority(3) \o of_priority(4)
            \o of_priority(5)

\* The FIFO simulation of one coin's trades: the queue, the realized PnL and
\* whether a close was left with an unmatched amount.
RECURSIVE apply_trades(_, _, _, _)
apply_trades(q, trs, pnl, unmatched) ==
    IF trs = <<>>
    THEN [queue |-> q, realized_pnl |-> pnl, residual |-> unmatched]
    ELSE LET r == apply_trade(q, Head(trs))
         IN  apply_trades(r.queue, Tail(trs), pnl + r.realized_pnl,
                          unmatched \/ r.to_close > 0)

\* A seed that opens a lot whether or not the coin has a price.
seed_queue_mut(amount, has_column, start_price) ==
    IF amount # 0 THEN <<Lot(start_price, amount)>> ELSE <<>>

\* calculate_perp_account_value 1012-1033: the queue a coin starts the
\* bucket with.
seed_queue(amount, has_column, start_price) ==
    IF amount # 0 /\ has_column /\ start_price > 0
    THEN <<Lot(start_price, amount)>>
    ELSE <<>>

\* intervals_df.iloc[i][price_col] for the 0-based row i; 0 when the column
\* is missing.
price_at(cols, coin, i) ==
    IF cols[coin] = <<>> THEN 0 ELSE cols[coin][i + 1]

\* Step 6: the virtual close of one coin's queue at the bucket's end price.
RECURSIVE queue_virtual_pnl(_, _)
queue_virtual_pnl(q, end_price) ==
    IF q = <<>> THEN 0
    ELSE (IF Head(q).amount > 0
          THEN (end_price - Head(q).price) * Head(q).amount
          ELSE IF Head(q).amount < 0
               THEN (Head(q).price - end_price) * Abs(Head(q).amount)
               ELSE 0)
         + queue_virtual_pnl(Tail(q), end_price)

\* Step 5: the net position per coin read off the queues.
queue_positions(queues) == [c \in BookCoins |-> SumAmounts(queues[c])]

\* Lines 1176-1252: the cross-check of the queues against the position
\* reconstructed at the bucket's end.  A warning is keyed by coin,
\* direction and the kind of disagreement.
WarningKeys ==
    {<<c, d, kind>> : c \in BookCoins, d \in {"long", "short"},
                      kind \in {"mismatch", "not_found", "missing_in_queue"}}

NoWarnings == [k \in WarningKeys |-> 0]

\* queue_summary holds the key (coin, dir), and its total.
in_queue_summary(queues, c, d) ==
    IF d = "long" THEN current_long(queues[c]) > 0
    ELSE current_short(queues[c]) > 0

queue_total(queues, c, d) ==
    IF d = "long" THEN current_long(queues[c]) ELSE -current_short(queues[c])

\* An actual position of that coin and direction.
in_actual(actual, c, d) ==
    IF d = "long" THEN actual[c] > 0 ELSE actual[c] < 0

\* The keys whose condition the bucket shows.
cross_check(trades_list, queues, actual) ==
    IF \/ trades_list = <<>>
       \/ \A c \in BookCoins : \A d \in {"long", "short"} :
              ~in_queue_summary(queues, c, d)
       \/ \A c \in BookCoins : actual[c] = 0
    THEN {}
    ELSE {k \in WarningKeys :
            LET c == k[1]
                d == k[2]
                traded == trades_of_coin(trades_list, c) # <<>>
            IN  CASE k[3] = "mismatch" ->
                        /\ in_queue_summary(queues, c, d)
                        /\ in_actual(actual, c, d)
                        /\ queue_total(queues, c, d) # actual[c]
                  [] k[3] = "not_found" ->
                        /\ in_queue_summary(queues, c, d)
                        /\ ~in_actual(actual, c, d)
                  [] OTHER ->
                        /\ traded
                        /\ in_actual(actual, c, d)
                        /\ ~in_queue_summary(queues, c, d)}

\* A log that prints a warning every time its condition shows.
log_warnings_mut(log, warned, found) ==
    [k \in WarningKeys |-> IF k \in found THEN log[k] + 1 ELSE log[k]]

\* if warning_key not in warned_mismatches: print(...)
log_warnings(log, warned, found) ==
    [k \in WarningKeys |->
        IF k \in found /\ k \notin warned THEN log[k] + 1 ELSE log[k]]

\* Lines 964-983: the first bucket.
PerpFirstInterval ==
    /\ ppc = "first"
    /\ perp_positions_col' =
           <<find_position_before(positions_df, grid[1])>>
    /\ perp_account_value' = <<0>>
    /\ realized_pnl' = <<0>>
    /\ virtual_pnl' = <<0>>
    /\ pidx' = 1
    /\ ppc' = IF Len(grid) > 1 THEN "seed" ELSE "done"
    /\ UNCHANGED <<positions_df, price_cols, grid, position_queues, residual,
                   warned_mismatches, warning_log, mismatch_buckets>>
    /\ UNCHANGED OthersP

\* Lines 1008-1033: the queues are created anew from the position at the
\* bucket's start.
SeedQueues ==
    /\ ppc = "seed"
    /\ LET prev_idx == pidx - 1
           start_timestamp == grid[prev_idx + 1]
           prev_perp_positions ==
               find_position_before(positions_df, start_timestamp)
       IN  position_queues' =
               [c \in BookCoins |->
                   seed_queue(prev_perp_positions[c], price_cols[c] # <<>>,
                              price_at(price_cols, c, prev_idx))]
    /\ ppc' = "trade"
    /\ UNCHANGED <<positions_df, price_cols, grid, pidx, residual,
                   realized_pnl, virtual_pnl, perp_account_value,
                   perp_positions_col, warned_mismatches, warning_log,
                   mismatch_buckets>>
    /\ UNCHANGED OthersP

\* Lines 1035-1327: the bucket's trades, sorted per coin and applied, then
\* the virtual close and the account value.
ProcessTrades ==
    /\ ppc = "trade"
    /\ LET start_timestamp == grid[pidx]
           end_timestamp == grid[pidx + 1]
           trades_list ==
               get_trades_in_interval(positions_df, start_timestamp,
                                      end_timestamp)
           result == [c \in BookCoins |->
                         apply_trades(position_queues[c],
                                      coin_trades_sorted(
                                          trades_of_coin(trades_list, c)),
                                      0, FALSE)]
           realized == [c \in BookCoins |-> result[c].realized_pnl]
           virtual == [c \in BookCoins |->
                          IF price_at(price_cols, c, pidx) > 0
                          THEN queue_virtual_pnl(result[c].queue,
                                                 price_at(price_cols, c, pidx))
                          ELSE 0]
           total_realized_pnl == SumOver(realized, BookCoins)
           total_virtual_pnl == SumOver(virtual, BookCoins)
           total_perp_asset_change ==
               get_perp_asset_changes_in_interval(positions_df,
                                                  start_timestamp,
                                                  end_timestamp)
           found == cross_check(trades_list,
                                [c \in BookCoins |-> result[c].queue],
                                find_position_before(positions_df,
                                                     end_timestamp))
       IN  /\ position_queues' = [c \in BookCoins |-> result[c].queue]
           /\ warning_log' = log_warnings(warning_log, warned_mismatches,
                                          found)
           /\ warned_mismatches' = warned_mismatches \cup found
           /\ mismatch_buckets' =
                  [k \in WarningKeys |->
                      mismatch_buckets[k] + (IF k \in found THEN 1 ELSE 0)]
           /\ residual' = [c \in BookCoins |-> result[c].residual]
           /\ perp_positions_col' =
                  Append(perp_positions_col,
                         queue_positions([c \in BookCoins |-> result[c].queue]))
           /\ realized_pnl' = Append(realized_pnl, total_realized_pnl)
           /\ virtual_pnl' = Append(virtual_pnl, total_virtual_pnl)
           /\ perp_account_value' =
                  Append(perp_account_value,
                         perp_account_value[pidx] + total_realized_pnl
                             + total_virtual_pnl + total_perp_asset_change)
    /\ pidx' = pidx + 1
    /\ ppc' = IF pidx + 1 < Len(grid) THEN "seed" ELSE "done"
    /\ UNCHANGED <<positions_df, price_cols, grid>>
    /\ UNCHANGED OthersP

NextPerp ==
    \/ PerpFirstInterval
    \/ SeedQueues
    \/ ProcessTrades

\* Non-decreasing event times.
RowTimes(n) ==
    {ts \in [1..n -> 1..PerpMaxTime] : \A i \in 1..(n - 1) : ts[i] <= ts[i + 1]}

\* The positions held before the first event.
StartBooks ==
    {EmptyBook,
     [c \in BookCoins |-> IF c = "BTC" THEN 2 ELSE 0],
     [c \in BookCoins |-> IF c = "BTC" THEN 0 ELSE -1]}

\* The price columns preload_prices left on a grid of n buckets: ETH priced
\* everywhere; BTC priced everywhere, priced except at the first bucket, or
\* without a column.
PriceTables(n) ==
    LET rising == [k \in 1..n |-> 10 + k]
        gap == [k \in 1..n |-> IF k = 1 THEN 0 ELSE 10 + k]
    IN  {[c \in BookCoins |-> IF c = "BTC" THEN btc ELSE rising] :
            btc \in {rising, gap, <<>>}}

InitPerp ==
    /\ IdleB /\ IdleF /\ IdleN /\ IdleR /\ IdleU /\ IdleG /\ IdleK /\ IdleS /\ IdleD /\ IdleW /\ IdleO
    /\ \E n \in 1..MaxRows : \E ts \in RowTimes(n) :
           \E fs \in [1..n -> Fills] : \E p0 \in StartBooks :
               positions_df = BuildRows(ts, fs, p0)
    /\ grid = time_grid(positions_df[1].timestamp,
                        positions_df[Len(positions_df)].timestamp, BucketWidth)
    /\ price_cols \in PriceTables(Len(grid))
    /\ ppc = "first"
    /\ pidx = 0
    /\ position_queues = NoQueues
    /\ residual = [c \in BookCoins |-> FALSE]
    /\ realized_pnl = <<>>
    /\ virtual_pnl = <<>>
    /\ perp_account_value = <<>>
    /\ perp_positions_col = <<>>
    /\ warned_mismatches = {}
    /\ warning_log = NoWarnings
    /\ mismatch_buckets = NoWarnings

SpecPerp == InitPerp /\ [][NextPerp]_vars

-----------------------------------------------------------------------------
(* caculate_net_value_v2.py: shares and net value.  The code's floats are  *)
(* exact fractions [num, den] here, den > 0 and in lowest terms, so that   *)
(* its test abs(x) > 1e-10 is x # 0.                                       *)

NavBuckets == 3

RECURSIVE GCD(_, _)
GCD(a, b) == IF b = 0 THEN a ELSE GCD(b, a % b)

Frac(n, d) ==
    LET g == GCD(Abs(n), Abs(d))
        s == IF d < 0 THEN -1 ELSE 1
    IN  [num |-> (s * n) \div g, den |-> (s * d) \div g]

FracOfInt(n) == [num |-> n, den |-> 1]
FracZero == FracOfInt(0)
\* Common factors are cancelled before multiplying, which keeps the
\* intermediate products small; the values are the usual sum, product and
\* quotient.
FracAdd(x, y) ==
    LET g == GCD(x.den, y.den)
    IN  Frac(x.num * (y.den \div g) + y.num * (x.den \div g),
             (x.den \div g) * y.den)
FracMul(x, y) ==
    LET g1 == GCD(Abs(x.num), y.den)
        g2 == GCD(Abs(y.num), x.den)
    IN  Frac((x.num \div g1) * (y.num \div g2),
             (x.den \div g2) * (y.den \div g1))
\* 1 / y for y # 0
FracInv(y) ==
    IF y.num < 0 THEN [num |-> -y.den, den |-> -y.num]
    ELSE [num |-> y.den, den |-> y.num]
\* x / y for y # 0
FracDiv(x, y) == FracMul(x, FracInv(y))

\* The share_change column: '' is <<>>; the recorder's
\* f"{usdc}/current_net_value" is the pair of its two parts.
share_change_str(usdc) == <<usdc, "current_net_value">>

\* share_change_str.split('/')[0]
parse_change_value(str) == str[1]

\* Lines 1463-1470: the shares one event adds, at the previous bucket's net
\* value; nothing when that net value is zero.
share_delta(change_value, prev_net_value) ==
    IF prev_net_value.num # 0
    THEN FracDiv(FracOfInt(change_value), prev_net_value)
    ELSE FracZero

RECURSIVE total_share_change(_, _)
total_share_change(evs, prev_net_value) ==
    IF evs = <<>> THEN FracZero
    ELSE FracAdd(IF Head(evs).share_change # <<>>
                 THEN share_delta(parse_change_value(Head(evs).share_change),
                                  prev_net_value)
                 ELSE FracZero,
                 total_share_change(Tail(evs), prev_net_value))

RECURSIVE total_closed_pnl(_)
total_closed_pnl(evs) ==
    IF evs = <<>> THEN 0 ELSE Head(evs).closedPnl + total_closed_pnl(Tail(evs))

\* A net value that is the total assets, undivided.
net_value_of_mut(current_total_assets, current_total_shares) ==
    FracOfInt(current_total_assets)

\* Lines 1490-1494
net_value_of(current_total_assets, current_total_shares) ==
    IF current_total_shares.num # 0
    THEN FracDiv(FracOfInt(current_total_assets), current_total_shares)
    ELSE FracZero

\* total_intervals = len(self.intervals_df)
total_intervals == Len(spot_account_value)

\* Lines 1371-1383: the columns are created and total_assets filled in.
ComputeTotalAssets ==
    /\ npc = "assets"
    /\ total_assets' = [k \in 1..total_intervals |->
                           spot_account_value[k] + perp_value_col[k]]
    /\ total_shares' = [k \in 1..total_intervals |-> FracZero]
    /\ net_value' = [k \in 1..total_intervals |-> FracZero]
    /\ cumulative_pnl' = [k \in 1..total_intervals |-> 0]
    /\ npc' = "init"
    /\ UNCHANGED <<spot_account_value, perp_value_col, interval_events, nidx,
                   first_non_zero_idx>>
    /\ UNCHANGED OthersN

\* Lines 1387-1423: shares start at the first bucket with non-zero assets.
InitShares ==
    /\ npc = "init"
    /\ LET non_zero == {k \in 1..total_intervals : total_assets[k] # 0}
       IN  IF non_zero = {}
           THEN /\ npc' = "done"
                /\ UNCHANGED <<total_shares, net_value, cumulative_pnl, nidx,
                               first_non_zero_idx>>
           ELSE LET first == SetMin(non_zero)
                    initial_cumulative_pnl ==
                        SumOver([k \in 1..first |->
                                    total_closed_pnl(interval_events[k])],
                                1..first)
                IN  /\ first_non_zero_idx' = first
                    /\ total_shares' = [total_shares EXCEPT ![first] =
                                            FracOfInt(total_assets[first])]
                    /\ net_value' = [net_value EXCEPT ![first] = FracOfInt(1)]
                    /\ cumulative_pnl' = [cumulative_pnl EXCEPT ![first] =
                                              initial_cumulative_pnl]
                    /\ nidx' = first + 1
                    /\ npc' = IF first < total_intervals THEN "loop" ELSE "done"
    /\ UNCHANGED <<spot_account_value, perp_value_col, interval_events,
                   total_assets>>
    /\ UNCHANGED OthersN

\* Lines 1425-1504: one later bucket.
NavStep ==
    /\ npc = "loop"
    /\ LET prev_total_shares == total_shares[nidx - 1]
           prev_net_value == net_value[nidx - 1]
           current_total_shares ==
               FracAdd(prev_total_shares,
                       total_share_change(interval_events[nidx],
                                          prev_net_value))
       IN  /\ total_shares' = [total_shares EXCEPT ![nidx] =
                                   current_total_shares]
           /\ net_value' = [net_value EXCEPT ![nidx] =
                                net_value_of(total_assets[nidx],
                                             current_total_shares)]
           /\ cumulative_pnl' = [cumulative_pnl EXCEPT ![nidx] =
                                     cumulative_pnl[nidx - 1]
                                         + total_closed_pnl(interval_events[nidx])]
    /\ nidx' = nidx + 1
    /\ npc' = IF nidx < total_intervals THEN "loop" ELSE "done"
    /\ UNCHANGED <<spot_account_value, perp_value_col, interval_events,
                   total_assets, first_non_zero_idx>>
    /\ UNCHANGED OthersN

NextNav ==
    \/ ComputeTotalAssets
    \/ InitShares
    \/ NavStep

\* Timeline rows as the net value step reads them.
DepositRow(usdc) == [share_change |-> share_change_str(usdc), closedPnl |-> 0]
WithdrawRow(usdc) == [share_change |-> share_change_str(-usdc), closedPnl |-> 0]
CloseRow(pnl) == [share_change |-> <<>>, closedPnl |-> pnl]

BucketEvents ==
    {<<>>, <<DepositRow(50)>>, <<WithdrawRow(100)>>,
     <<WithdrawRow(50), CloseRow(5)>>, <<DepositRow(50), DepositRow(50)>>}

InitNav ==
    /\ IdleB /\ IdleF /\ IdleP /\ IdleR /\ IdleU /\ IdleG /\ IdleK /\ IdleS /\ IdleD /\ IdleW /\ IdleO
    /\ spot_account_value \in [1..NavBuckets -> {0, 100}]
    /\ perp_value_col \in [1..NavBuckets -> {0, 5}]
    /\ interval_events \in [1..NavBuckets -> BucketEvents]
    /\ total_assets = <<>>
    /\ total_shares = <<>>
    /\ net_value = <<>>
    /\ cumulative_pnl = <<>>
    /\ npc = "assets"
    /\ nidx = 0
    /\ first_non_zero_idx = 0

SpecNav == InitNav /\ [][NextNav]_vars

-----------------------------------------------------------------------------
(* caculate_net_value_v2.py end to end on one timeline: the spot account   *)
(* value, the perpetual account value and the net value are computed in    *)
(* that order on the grid generate_time_intervals lays over the timeline.  *)
(* A timeline row is a deposit, a withdrawal, a perp fill of BTC, a        *)
(* funding payment or a spot purchase of ETH, and carries the spot and the *)
(* perp position held before it.                                           *)

DepositUsdc == 1000
WithdrawUsdc == 500

SeriesEvents ==
    {[kind |-> "deposit", side |-> "", fee |-> 0],
     [kind |-> "withdraw", side |-> "", fee |-> 0],
     [kind |-> "withdraw", side |-> "", fee |-> 1],
     [kind |-> "fill", side |-> "B", fee |-> 0],
     [kind |-> "fill", side |-> "A", fee |-> 0],
     [kind |-> "funding", side |-> "", fee |-> 0],
     [kind |-> "spot_buy", side |-> "B", fee |-> 0]}

\* perp_asset_change_ex_position of the event's impact.
series_asset_change(e) ==
    CASE e.kind = "deposit" -> DepositUsdc
      [] e.kind = "withdraw" -> -(WithdrawUsdc + e.fee)
      [] e.kind = "funding" -> 1
      [] OTHER -> 0

\* share_change of the event's impact.
series_share_change(e) ==
    CASE e.kind = "deposit" -> share_change_str(DepositUsdc)
      [] e.kind = "withdraw" -> share_change_str(-WithdrawUsdc)
      [] OTHER -> <<>>

\* The rows calculate_backward hands over, oldest first.
RECURSIVE BuildSeriesRows(_, _, _, _)
BuildSeriesRows(times, evs, perp_pos, spot_pos) ==
    IF evs = <<>> THEN <<>>
    ELSE LET e == Head(evs)
             t == Head(times)
             row == [timestamp |-> t,
                     kind |-> e.kind,
                     coin |-> IF e.kind = "fill" THEN "BTC" ELSE "",
                     amount |-> IF e.kind = "fill" THEN 1 ELSE 0,
                     price |-> 10 + t,
                     dir |-> IF e.kind = "fill"
                             THEN trade_dir(perp_pos["BTC"], e.side, 1)
                             ELSE "",
                     side |-> e.side,
                     perp_asset_change |-> series_asset_change(e),
                     share_change |-> series_share_change(e),
                     closedPnl |-> 0,
                     perp_positions |-> perp_pos,
                     spot_positions |-> spot_pos]
             perp_after ==
                 IF e.kind = "fill"
                 THEN [perp_pos EXCEPT !["BTC"] =
                           @ + (IF e.side = "B" THEN 1 ELSE -1)]
                 ELSE perp_pos
             spot_after ==
                 IF e.kind = "spot_buy"
                 THEN [spot_pos EXCEPT !["ETH"] = @ + 1,
                                       !["USDC"] = @ - (10 + t)]
                 ELSE spot_pos
         IN  <<row>> \o BuildSeriesRows(Tail(times), Tail(evs), perp_after,
                                        spot_after)

\* _find_position_before(target, 'spot')
find_spot_position_before(rows, target_timestamp) ==
    LET before == {i \in 1..Len(rows) : rows[i].timestamp <= target_timestamp}
    IN  IF before = {} THEN ZeroSpot
        ELSE LET max_timestamp == SetMax({rows[i].timestamp : i \in before})
                 same_ts == {i \in before : rows[i].timestamp = max_timestamp}
             IN  rows[SetMax(same_ts)].spot_positions

\* calculate_spot_account_value 566-591: USDC at 1, any other coin at its
\* spot price column when that is present and positive.
spot_value(spot_positions, cols, k) ==
    LET price(c) == IF c = "USDC" THEN 1
                    ELSE IF cols["ETH_spot"] = <<>> THEN 0
                    ELSE cols["ETH_spot"][k]
    IN  SumOver([c \in SpotCoins |->
                    IF spot_positions[c] # 0 /\ price(c) > 0
                    THEN spot_positions[c] * price(c)
                    ELSE 0], SpotCoins)

\* A mask that takes in the row sitting on the previous grid row.
rows_in_interval_mut(rows, prev_timestamp, interval_timestamp) ==
    SelectSeq(rows, LAMBDA r : /\ r.timestamp >= prev_timestamp
                               /\ r.timestamp <= interval_timestamp)

\* calculate_net_value 1440-1443: the rows of the window (prev, current].
rows_in_interval(rows, prev_timestamp, interval_timestamp) ==
    SelectSeq(rows, LAMBDA r : /\ r.timestamp > prev_timestamp
                               /\ r.timestamp <= interval_timestamp)

\* calculate_net_value 1398-1400: the rows up to the first grid row.
rows_up_to(rows, initial_timestamp) ==
    SelectSeq(rows, LAMBDA r : r.timestamp <= initial_timestamp)

\* calculate_spot_account_value: one value per grid row.
SpotAccountValue ==
    /\ ppc = "spot"
    /\ spot_account_value' =
           [k \in 1..Len(grid) |->
               spot_value(find_spot_position_before(positions_df, grid[k]),
                          price_cols, k)]
    /\ ppc' = "first"
    /\ UNCHANGED <<positions_df, price_cols, grid, pidx, position_queues,
                   residual, realized_pnl, virtual_pnl, perp_account_value,
                   perp_positions_col, warned_mismatches, warning_log,
                   mismatch_buckets>>
    /\ UNCHANGED <<perp_value_col, interval_events, total_assets,
                   total_shares, net_value, cumulative_pnl, npc, nidx,
                   first_non_zero_idx>>
    /\ UNCHANGED <<varsB, varsF, varsR, varsU, varsG, varsK, varsS, varsD, varsW, varsO>>

\* calculate_net_value 1364-1376 and 1440-1443: it reads the
\* perp_account_value column and, bucket by bucket, the timeline rows of
\* the bucket's window.
StartNetValue ==
    /\ ppc = "done"
    /\ npc = "idle"
    /\ spot_account_value # <<>>
    /\ perp_value_col' = perp_account_value
    /\ interval_events' =
           [k \in 1..Len(grid) |->
               IF k = 1 THEN rows_up_to(positions_df, grid[1])
               ELSE rows_in_interval(positions_df, grid[k - 1], grid[k])]
    /\ npc' = "assets"
    /\ UNCHANGED <<spot_account_value, total_assets, total_shares, net_value,
                   cumulative_pnl, nidx, first_non_zero_idx>>
    /\ UNCHANGED OthersN

NextSeries ==
    \/ SpotAccountValue
    \/ PerpFirstInterval
    \/ SeedQueues
    \/ ProcessTrades
    \/ StartNetValue
    \/ ComputeTotalAssets
    \/ InitShares
    \/ NavStep

\* The positions held before the first event: nothing, or 1 BTC long with
\* 1000 USDC and 1 ETH on the spot side.
SeriesStartBooks ==
    {[perp |-> EmptyBook, spot |-> ZeroSpot],
     [perp |-> [c \in BookCoins |-> IF c = "BTC" THEN 1 ELSE 0],
      spot |-> [c \in SpotCoins |-> IF c = "USDC" THEN 1000 ELSE 1]]}

\* The price columns on a grid of n rows, the same for every coin: flat,
\* rising at every row, or rising once after the first row.
SeriesPriceTables(n) ==
    LET flat == [k \in 1..n |-> 10]
        rising == [k \in 1..n |-> 10 + k]
        step == [k \in 1..n |-> IF k = 1 THEN 10 ELSE 11]
    IN  {[c \in BookCoins \cup {"ETH_spot"} |-> tbl] :
            tbl \in {flat, rising, step}}

InitSeries ==
    /\ IdleB /\ IdleF /\ IdleN /\ IdleR /\ IdleU /\ IdleG /\ IdleK /\ IdleS /\ IdleD /\ IdleW /\ IdleO
    /\ \E n \in 1..MaxRows : \E ts \in RowTimes(n) :
           \E evs \in [1..n -> SeriesEvents] : \E b \in SeriesStartBooks :
               positions_df = BuildSeriesRows(ts, evs, b.perp, b.spot)
    /\ grid = time_grid(positions_df[1].timestamp,
                        positions_df[Len(positions_df)].timestamp, BucketWidth)
    /\ price_cols \in SeriesPriceTables(Len(grid))
    /\ ppc = "spot"
    /\ pidx = 0
    /\ position_queues = NoQueues
    /\ residual = [c \in BookCoins |-> FALSE]
    /\ realized_pnl = <<>>
    /\ virtual_pnl = <<>>
    /\ perp_account_value = <<>>
    /\ perp_positions_col = <<>>
    /\ warned_mismatches = {}
    /\ warning_log = NoWarnings
    /\ mismatch_buckets = NoWarnings

SpecSeries == InitSeries /\ [][NextSeries]_vars

-----------------------------------------------------------------------------
(* One run of scripts/calculate.py: the sources are read in the order      *)
(* snapshots, trades, funding, ledger; the events are normalised; prices   *)
(* are fetched with retries; the series is computed and emitted.           *)

max_retries == 5
base_delay == 1

Calls == {"snapshots", "trades", "funding", "ledger", "price"}
FailureKinds == {"timeout", "connection", "rate_limit"}

\* At most one external call misbehaves.  throttled is the number of
\* consecutive 429 answers the price source gives before it returns data.
NoFailure == [call |-> "none", kind |-> "none", throttled |-> 0]

FailureModes ==
    {NoFailure}
        \cup {[call |-> c, kind |-> k,
               throttled |-> IF c = "price" /\ k = "rate_limit"
                             THEN max_retries ELSE 0] :
                 c \in Calls, k \in FailureKinds}
        \cup {[call |-> "price", kind |-> "rate_limit", throttled |-> n] :
                 n \in {1, max_retries - 1}}

\* An event as build_timeline lists it: type is the event's kind, subtype
\* the trade's type field or the ledger delta's type.  Unused fields are
\* "-"; a trade whose type field is absent from the answer has subtype "".
Ev(type, subtype, dir, side, user, destination, sourceDex, destinationDex, token) ==
    [type |-> type, subtype |-> subtype, dir |-> dir, side |-> side,
     user |-> user, destination |-> destination, sourceDex |-> sourceDex,
     destinationDex |-> destinationDex, token |-> token]

account_address == "me"

SourceTrades ==
    {Ev("trade", tp, d, sd, "-", "-", "-", "-", "-") :
        tp \in {"", "perps", "spot"}, d \in {"Open Long", "Buy"},
        sd \in {"B", "A", "X"}}

SourceFunding == {Ev("funding", "-", "-", "-", "-", "-", "-", "-", "-")}

Dexes == {"", "spot", "xyz"}

SourceLedger ==
    {Ev("ledger", st, "-", "-", "-", "-", "-", "-", "-") :
        st \in {"deposit", "withdraw", "bogus"}}
        \cup {Ev("ledger", "send", "-", "-", u, d, sdx, ddx, "USDC") :
                 u \in {"me", "other"}, d \in {"me", "other"},
                 sdx \in Dexes, ddx \in Dexes}
        \cup {Ev("ledger", "send", "-", "-", "me", "other", sdx, "", "ETH") :
                 sdx \in Dexes}

AtMostOne(S) == {<<>>} \cup {<<e>> : e \in S}

\* data_loader._normalize_trade_fields 193-236: the type is inferred from
\* dir when the answer carries none.
normalize_trade_fields(trade) ==
    IF trade.subtype # "" THEN trade
    ELSE IF trade.dir \in {"Close Long", "Close Short", "Open Long",
                           "Open Short", "Auto-Deleveraging", "Short > Long",
                           "Long > Short", "Settlement",
                           "Liquidated Cross Short", "Liquidated Cross Long",
                           "Liquidated Isolated Short",
                           "Liquidated Isolated Long"}
         THEN [trade EXCEPT !.subtype = "perp"]
    ELSE IF trade.dir \in {"Buy", "Sell", "Spot Dust Conversion"}
         THEN [trade EXCEPT !.subtype = "spot"]
    ELSE [trade EXCEPT !.subtype = "perp"]

normalize_all(trades) == [i \in 1..Len(trades) |-> normalize_trade_fields(trades[i])]

\* record_perp_trade_impact 285 / record_spot_trade_impact 386
record_side_checked_impact(trade) ==
    IF trade.side \in {"B", "A"} THEN "impact" ELSE "ValueError"

\* record_trade_impact 205-215
record_trade_impact(trade) ==
    IF trade.subtype \in {"perp", "perps"} THEN record_side_checked_impact(trade)
    ELSE IF trade.subtype = "spot" THEN record_side_checked_impact(trade)
    ELSE "impact"

\* record_send_impact 1190-1283: the case a send falls under, 0 for none.
send_case(delta) ==
    LET user == delta.user
        destination == delta.destination
        sourceDex == delta.sourceDex
        destinationDex == delta.destinationDex
        leaves == \/ destination # account_address
                  \/ /\ destination = account_address
                     /\ destinationDex # ""
                     /\ destinationDex # "spot"
        arrives == \/ user # account_address
                   \/ /\ user = account_address
                      /\ sourceDex # ""
                      /\ sourceDex # "spot"
    IN  IF /\ user = account_address /\ destination = account_address
           /\ sourceDex = "" /\ destinationDex = "spot" THEN 1
        ELSE IF /\ user = account_address /\ destination = account_address
                /\ sourceDex = "spot" /\ destinationDex = "" THEN 2
        ELSE IF user = account_address /\ sourceDex = "" /\ leaves THEN 3
        ELSE IF user = account_address /\ sourceDex = "spot" /\ leaves THEN 4
        ELSE IF destination = account_address /\ destinationDex = "" /\ arrives
             THEN 5
        ELSE IF destination = account_address /\ destinationDex = "spot"
                /\ arrives THEN 6
        ELSE 0

record_send_impact(delta) ==
    LET case == send_case(delta)
    IN  IF case = 0 THEN "ValueError"
        ELSE IF case \in {3, 5} /\ delta.token # "USDC" THEN "ValueError"
        ELSE "impact"

\* The keys of record_ledger_impact's method_map.
LedgerTypes ==
    {"deposit", "withdraw", "accountClassTransfer", "spotTransfer",
     "internalTransfer", "subAccountTransfer", "vaultCreate", "vaultDeposit",
     "vaultWithdraw", "vaultDistribution", "spotGenesis", "send",
     "cStakingTransfer", "liquidation", "rewardsClaim",
     "activateDexAbstraction", "accountActivationGas"}

\* An unknown ledger type recorded as an event without impact.
record_ledger_impact_mut(ledger) ==
    IF ledger.subtype = "send" THEN record_send_impact(ledger)
    ELSE "impact"

\* record_ledger_impact 511-553
record_ledger_impact(ledger) ==
    IF ledger.subtype \in LedgerTypes
    THEN IF ledger.subtype = "send" THEN record_send_impact(ledger)
         ELSE "impact"
    ELSE "ValueError"

\* record_event_impact 182-203
record_event_impact(event) ==
    IF event.type = "trade" THEN record_trade_impact(event)
    ELSE IF event.type = "funding" THEN "impact"
    ELSE IF event.type = "ledger" THEN record_ledger_impact(event)
    ELSE "impact"

\* calculate_backward 704-716 with load_snapshots_from_api: any failure of
\* the snapshot call is caught and read as no snapshots; no snapshots ends
\* the run.
LoadSnapshots ==
    /\ rpc = "snapshots"
    /\ IF failure.call = "snapshots"
       THEN /\ failed_calls' = failed_calls \cup {"snapshots"}
            /\ run_result' = "failed"
            /\ rpc' = "done"
       ELSE IF src_snapshots = 0
       THEN /\ run_result' = "failed"
            /\ rpc' = "done"
            /\ UNCHANGED failed_calls
       ELSE /\ rpc' = "trades"
            /\ UNCHANGED <<failed_calls, run_result>>
    /\ UNCHANGED <<failure, src_events, src_snapshots, loaded, attempt, sleeps>>
    /\ UNCHANGED OthersR

\* load_trades: every failure is raised as RuntimeError, which
\* load_positions_data turns into a failed run.
LoadTrades ==
    /\ rpc = "trades"
    /\ IF failure.call = "trades"
       THEN /\ failed_calls' = failed_calls \cup {"trades"}
            /\ run_result' = "failed"
            /\ rpc' = "done"
            /\ UNCHANGED loaded
       ELSE /\ loaded' = loaded \o normalize_all(src_events.trade)
            /\ rpc' = "funding"
            /\ UNCHANGED <<failed_calls, run_result>>
    /\ UNCHANGED <<failure, src_events, src_snapshots, attempt, sleeps>>
    /\ UNCHANGED OthersR

\* load_funding 456-532: a timeout or connection failure is raised; a
\* non-200 answer raises RuntimeError inside the try, which the final
\* except Exception turns into an empty list.
LoadFunding ==
    /\ rpc = "funding"
    /\ IF failure.call = "funding"
       THEN /\ failed_calls' = failed_calls \cup {"funding"}
            /\ IF failure.kind \in {"timeout", "connection"}
               THEN /\ run_result' = "failed"
                    /\ rpc' = "done"
               ELSE /\ rpc' = "ledger"
                    /\ UNCHANGED run_result
            /\ UNCHANGED loaded
       ELSE /\ loaded' = loaded \o src_events.funding
            /\ rpc' = "ledger"
            /\ UNCHANGED <<failed_calls, run_result>>
    /\ UNCHANGED <<failure, src_events, src_snapshots, attempt, sleeps>>
    /\ UNCHANGED OthersR

\* load_ledger 536-616
LoadLedger ==
    /\ rpc = "ledger"
    /\ IF failure.call = "ledger"
       THEN /\ failed_calls' = failed_calls \cup {"ledger"}
            /\ run_result' = "failed"
            /\ rpc' = "done"
            /\ UNCHANGED loaded
       ELSE /\ loaded' = loaded \o src_events.ledger
            /\ rpc' = "process"
            /\ UNCHANGED <<failed_calls, run_result>>
    /\ UNCHANGED <<failure, src_events, src_snapshots, attempt, sleeps>>
    /\ UNCHANGED OthersR

\* process_all_events and calculate_backward 709-713: a ValueError of any
\* event, or an empty timeline, ends the run.
ProcessAllEvents ==
    /\ rpc = "process"
    /\ IF \E i \in 1..Len(loaded) : record_event_impact(loaded[i]) = "ValueError"
       THEN /\ run_result' = "failed"
            /\ rpc' = "done"
       ELSE IF loaded = <<>>
       THEN /\ run_result' = "failed"
            /\ rpc' = "done"
       ELSE /\ rpc' = "prices"
            /\ UNCHANGED run_result
    /\ UNCHANGED <<failure, src_events, src_snapshots, loaded, attempt, sleeps,
                   failed_calls>>
    /\ UNCHANGED OthersR

\* A wait that grows by base_delay with every attempt.
backoff_delay_mut(n) == base_delay * (n + 1)

\* fetch_klines 499: delay = base_delay * (2 ** attempt)
backoff_delay(n) == base_delay * 2 ^ n

\* fetch_klines 479-513 under preload_prices 320-394: one attempt.  A 429
\* is retried after base_delay * 2^attempt while attempt < max_retries - 1;
\* any other exception, and the 429 of the last attempt, is raised, and
\* preload_prices prints it and goes on without the coin's prices.
FetchKlines ==
    /\ rpc = "prices"
    /\ IF failure.call # "price"
       THEN /\ rpc' = "compute"
            /\ UNCHANGED <<attempt, sleeps, failed_calls>>
       ELSE IF failure.kind # "rate_limit"
       THEN /\ failed_calls' = failed_calls \cup {"price"}
            /\ rpc' = "compute"
            /\ UNCHANGED <<attempt, sleeps>>
       ELSE IF attempt >= failure.throttled
       THEN /\ rpc' = "compute"
            /\ UNCHANGED <<attempt, sleeps, failed_calls>>
       ELSE IF attempt < max_retries - 1
       THEN /\ sleeps' = Append(sleeps, backoff_delay(attempt))
            /\ attempt' = attempt + 1
            /\ UNCHANGED <<rpc, failed_calls>>
       ELSE /\ failed_calls' = failed_calls \cup {"price"}
            /\ rpc' = "compute"
            /\ UNCHANGED <<attempt, sleeps>>
    /\ UNCHANGED <<failure, src_events, src_snapshots, loaded, run_result>>
    /\ UNCHANGED OthersR

\* calculate.py 84-124: the valuation stages run and, unless one of them
\* reports failure, the series is written out.
ComputeSeries ==
    /\ rpc = "compute"
    /\ \E stages_ok \in BOOLEAN :
           run_result' = IF stages_ok THEN "series" ELSE "failed"
    /\ rpc' = "done"
    /\ UNCHANGED <<failure, src_events, src_snapshots, loaded, attempt, sleeps,
                   failed_calls>>
    /\ UNCHANGED OthersR

NextRun ==
    \/ LoadSnapshots
    \/ LoadTrades
    \/ LoadFunding
    \/ LoadLedger
    \/ ProcessAllEvents
    \/ FetchKlines
    \/ ComputeSeries

InitRun ==
    /\ IdleB /\ IdleF /\ IdleP /\ IdleN /\ IdleU /\ IdleG /\ IdleK /\ IdleS /\ IdleD /\ IdleW /\ IdleO
    /\ failure \in FailureModes
    /\ src_events \in [trade : AtMostOne(SourceTrades),
                       funding : AtMostOne(SourceFunding),
                       ledger : AtMostOne(SourceLedger)]
    /\ src_snapshots \in {0, 1}
    /\ rpc = "snapshots"
    /\ loaded = <<>>
    /\ attempt = 0
    /\ sleeps = <<>>
    /\ failed_calls = {}
    /\ run_result = "running"

SpecRun == InitRun /\ [][NextRun]_vars

-----------------------------------------------------------------------------
(* Properties of the backward reconstruction.                              *)

Finished == pc \in {"done", "grid"}

\* Every snapshot is the true position at its time.
ExactSnapshots ==
    \A t \in DOMAIN snapshots : snapshots[t] = GroupedSnapshot(events, t, 0)

\* No snapshot is stamped with the millisecond of an event.
NoSnapshotTies ==
    \A t \in DOMAIN snapshots : \A i \in 1..Len(events) : events[i].time # t

\* Row i of the returned frame (oldest first) is row Len - i + 1 of the
\* timeline (newest first).
TimelineIndex(i) == Len(events) - i + 1

RowCarriesTruth(i) ==
    /\ df[i].spot_positions = TrueSpotBefore(events, TimelineIndex(i))
    /\ df[i].perp_positions = TruePerpBefore(events, TimelineIndex(i))

\* C1: with exact impacts and snapshots that record the true positions,
\* every row of the returned timeline carries the spot and perp position
\* held immediately before its event.
C1_EveryRowCarriesPositionBefore ==
    (Finished /\ ExactSnapshots /\ NoSnapshotTies)
        => \A i \in 1..Len(df) : RowCarriesTruth(i)

RowMatchesSnapshot(r) ==
    compare_positions(r.spot_positions, r.perp_positions,
                      r.snapshot_spot, r.snapshot_perp)

RowIsSnapshot(r) ==
    /\ r.spot_positions = r.snapshot_spot
    /\ r.perp_positions = r.snapshot_perp

\* C2: in the returned timeline every snapshot-checked row carries a
\* recorded position that is within tolerance of its snapshot or is the
\* snapshot itself.
C2_CheckedRowAgreesWithSnapshot ==
    Finished => \A i \in 1..Len(df) :
                    df[i].is_snapshot_recorded
                        => (RowMatchesSnapshot(df[i]) \/ RowIsSnapshot(df[i]))

\* C3: once the walk has passed a row that carries a snapshot, matched or
\* not, the working position from which the older rows are reconstructed is
\* exactly that snapshot.
C3_WorkingPositionIsSnapshot ==
    (pc = "walk" /\ df[idx - 1].is_snapshot_recorded)
        => /\ current_spot = df[idx - 1].snapshot_spot
           /\ current_perp = df[idx - 1].snapshot_perp

\* A row past the seed carries a snapshot its reconstruction does not
\* match, and an older row is still to be reconstructed.
C3_Witness ==
    /\ pc = "walk"
    /\ idx - 1 > start_idx
    /\ idx <= Len(df)
    /\ df[idx - 1].is_snapshot_recorded
    /\ ~RowMatchesSnapshot(df[idx - 1])
    /\ current_perp = df[idx - 1].snapshot_perp

\* C4: the bucket grid is the contiguous run of aligned starts from
\* floor(firstEventTime / width) to floor(lastSnapshotCheckedEventTime /
\* width) + 1, the end bound read either as exclusive or as inclusive.
C4_GridEndsAtLastCheckedEvent ==
    (pc = "grid" /\ \E i \in 1..Len(df) : df[i].is_snapshot_recorded)
        => LET checked == {i \in 1..Len(df) : df[i].is_snapshot_recorded}
               first == df[1].time \div BucketWidth
               last == df[SetMax(checked)].time \div BucketWidth
           IN  /\ Len(intervals) \in {last - first + 1, last - first + 2}
               /\ \A k \in 1..Len(intervals) :
                      intervals[k] = (first + k - 1) * BucketWidth

\* No row carries a snapshot and the walk was seeded from the latest
\* snapshot at the newest row not later than it.
FallbackSeed ==
    /\ pc = "walk"
    /\ \A i \in 1..Len(df) : ~df[i].is_snapshot_recorded
    /\ df[start_idx].time <= SetMax(DOMAIN snapshots)

\* The position of row i is the position from with the row's event undone.
UndoneFrom(i, from_spot, from_perp) ==
    /\ df[i].spot_positions =
           undo_spot_event(from_spot, df[i].spot_position_changes,
                           df[i].spot_asset_change_ex_position, EpsHundredths)
    /\ df[i].perp_positions =
           undo_perp_event(from_perp, df[i].perp_position_changes,
                           EpsHundredths)

\* C30: after a fallback seed the seed row carries the latest snapshot with
\* the seed event undone, and every older row reconstructed so far carries
\* the position of the next newer row with its own event undone.
C30_FallbackSeedRowIsUndone ==
    FallbackSeed
        => LET latest == snapshots[SetMax(DOMAIN snapshots)]
           IN  /\ UndoneFrom(start_idx, latest.spot, latest.perp)
               /\ \A i \in (start_idx + 1)..(idx - 1) :
                      UndoneFrom(i, df[i - 1].spot_positions,
                                 df[i - 1].perp_positions)

\* The row of the returned frame (oldest first) _find_position_before reads
\* for time T: the last of the rows stamped T or earlier.
RowsReadAt(T) ==
    {i \in 1..Len(df) : /\ df[i].time <= T
                        /\ \A j \in 1..Len(df) : df[j].time <= T => j <= i}

\* C29: every bucket of the grid is valued from a row that carries a
\* reconstructed position, i.e. from the seed row or an older one, never
\* from a row newer than the seed row.
C29_NoBucketFromUnreconstructedRow ==
    pc = "grid"
        => LET seed == Len(df) - start_idx + 1
           IN  \A k \in 1..Len(intervals) :
                   \A i \in RowsReadAt(intervals[k]) : i <= seed

\* The frame is still newest first and carries its snapshots.
SnapshotsPlaced == pc \in {"seed", "walk"}

\* Snapshot time t lies strictly between the time of row i and the time of
\* the next older row (0 below the oldest row).
StrictlyBetween(i, t) ==
    /\ t < df[i].time
    /\ t > (IF i < Len(df) THEN df[i + 1].time ELSE 0)

\* Row i carries the snapshot of time t.
Attached(i, t) ==
    /\ df[i].is_snapshot_recorded
    /\ df[i].snapshot_time = t
    /\ df[i].snapshot_spot = snapshots[t].spot
    /\ df[i].snapshot_perp = snapshots[t].perp

BareTimes == summary_times \ detail_times

\* Row i carries the snapshot of such a time.
CarriesBare(i) ==
    /\ df[i].is_snapshot_recorded
    /\ df[i].snapshot_time \in BareTimes

\* The position of row i was obtained by undoing the row's event from an
\* empty position.
UndoneFromEmpty(i) ==
    /\ df[i].spot_positions =
           undo_spot_event(ZeroSpot, df[i].spot_position_changes,
                           df[i].spot_asset_change_ex_position, EpsHundredths)
    /\ df[i].perp_positions =
           undo_perp_event(ZeroPerp, df[i].perp_position_changes,
                           EpsHundredths)

\* C25: a time of the account summary that has no rows in the position and
\* balance sources is a key of the snapshot index with empty spot and perp
\* positions; the row the placement rule selects for it carries it as a
\* recorded snapshot of zero holdings, the working position after that row
\* is empty and the next older row is reconstructed from the empty position;
\* a walk seeded from such a latest snapshot starts empty.
C25_EmptyEntryIsZeroHoldings ==
    /\ pc # "idle"
           => \A t \in BareTimes :
                  /\ t \in DOMAIN snapshots
                  /\ snapshots[t].spot = ZeroSpot
                  /\ snapshots[t].perp = ZeroPerp
    /\ SnapshotsPlaced
           => \A i \in 1..Len(df) : \A t \in BareTimes :
                  (/\ StrictlyBetween(i, t)
                   /\ \A u \in summary_times : StrictlyBetween(i, u) => u <= t)
                      => /\ CarriesBare(i)
                         /\ df[i].snapshot_time = t
                         /\ df[i].snapshot_spot = ZeroSpot
                         /\ df[i].snapshot_perp = ZeroPerp
    /\ pc = "walk"
           => /\ CarriesBare(idx - 1)
                     => current_spot = ZeroSpot /\ current_perp = ZeroPerp
              /\ \A i \in start_idx..(idx - 2) :
                     CarriesBare(i) => UndoneFromEmpty(i + 1)
              /\ (/\ idx = start_idx + 1
                  /\ ~df[start_idx].is_snapshot_recorded
                  /\ SetMax(summary_times) \in BareTimes)
                     => current_spot = ZeroSpot /\ current_perp = ZeroPerp

\* A row below the seed row carries the empty snapshot of a bare time, the
\* position reconstructed for it was not empty, and the next older row has
\* been reconstructed from the empty position.
C25_Witness ==
    /\ pc = "walk"
    /\ \E i \in (start_idx + 1)..(idx - 2) :
           /\ CarriesBare(i)
           /\ df[i].spot_positions # ZeroSpot
           /\ df[i].perp_positions # ZeroPerp
           /\ UndoneFromEmpty(i + 1)

\* The place of a timeline row's event in what the source returned, the
\* three lists taken one after the other.
SourcePos(row) ==
    CHOOSE i \in 1..Len(appended(src_events)) :
        /\ appended(src_events)[i].time = row.time
        /\ appended(src_events)[i].kind = row.kind

TimelineDone == pc = "done" /\ src_events # <<>>

\* C17 as stated: the reconstructed timeline is in ascending order of time
\* and events of equal time are in the order the source returned them.
C17_AscendingTiesInSourceOrder ==
    TimelineDone
        => \A i, j \in 1..Len(df) :
               i < j => /\ df[i].time <= df[j].time
                        /\ df[i].time = df[j].time
                               => SourcePos(df[i]) < SourcePos(df[j])

\* C17 amended: the reconstructed timeline is in ascending order of time
\* and events of equal time are in the reverse of the order the source
\* returned them (ledger before funding before trades, and within a list
\* the later record first).
C17_AscendingTiesInReverseSourceOrder ==
    TimelineDone
        => \A i, j \in 1..Len(df) :
               i < j => /\ df[i].time <= df[j].time
                        /\ df[i].time = df[j].time
                               => SourcePos(df[i]) > SourcePos(df[j])

\* The source returned two trades of one time, and a later event before
\* an earlier one.
C17_Witness ==
    /\ TimelineDone
    /\ Len(src_events.trade) = 2
    /\ src_events.trade[1].time = src_events.trade[2].time
    /\ \E i, j \in 1..Len(appended(src_events)) :
           i < j /\ appended(src_events)[i].time > appended(src_events)[j].time

\* C18: the timeline handed on has exactly one row for each event the
\* source returned.
C18_OneRowPerSourceEvent ==
    TimelineDone
        => /\ Len(df) = Len(appended(src_events))
           /\ \A k \in 1..Len(appended(src_events)) :
                  Cardinality({i \in 1..Len(df) : SourcePos(df[i]) = k}) = 1

\* Four events from the three lists have gone through reconstruction.
C18_Witness ==
    /\ TimelineDone
    /\ Len(df) = 4
    /\ Len(src_events.trade) = 2

-----------------------------------------------------------------------------
(* Properties of the paginated loaders.                                    *)

\* C23: a paginated loader requests the next page exactly when the page
\* just received was full (page_size records) and stops at the first page
\* that is not full; for a source holding finitely many records it makes
\* no more than one request per full page plus one, and returns every
\* record of every page.
C23_NextPageIffFullPage ==
    /\ \A i \in 1..(Len(pg_requests) - 1) : pg_requests[i] = page_size
    /\ (pg_pc = "request" /\ pg_requests # <<>>) =>
           pg_requests[Len(pg_requests)] = page_size
    /\ Len(pg_requests) <= Len(pg_source) \div page_size + 1
    /\ pg_pc = "done" =>
           /\ pg_requests[Len(pg_requests)] < page_size
           /\ Len(pg_requests) = Len(pg_source) \div page_size + 1
           /\ pg_all.rows = pg_source
           /\ pg_all.positions = positions_of(pg_source)

\* A snapshot load over two full pages and an empty third one.
C23_Witness ==
    /\ pg_pc = "done"
    /\ pg_loader = "load_snapshots_from_api"
    /\ pg_requests = <<page_size, page_size, 0>>
    /\ pg_all.positions # <<>>

-----------------------------------------------------------------------------
(* Properties of the calculation streams.                                  *)

InStream(r, e) == \E k \in 1..Len(ws_stream[r]) : ws_stream[r][k] = e

\* C31: a stream carries a completion event with success = true only if the
\* series of its calculation was saved to the store.
C31_SuccessOnlyIfSaved ==
    \A r \in Requests : InStream(r, Complete(TRUE)) => ws_saved[r]

\* The positions of the completion events in the stream of request r.
Completions(r) ==
    {k \in 1..Len(ws_stream[r]) : ws_stream[r][k].type = "complete"}

\* The positions of the log events of r's own calculation in its stream.
OwnLogs(r) ==
    {k \in 1..Len(ws_stream[r]) :
        ws_stream[r][k].type = "log" /\ ws_stream[r][k].of = r}

\* The stream of r never carries two completion events nor a log event of
\* its calculation after the completion event, and carries exactly one
\* completion event when it has ended.
StreamShape(r) ==
    /\ Cardinality(Completions(r)) <= 1
    /\ \A k \in Completions(r) : \A j \in OwnLogs(r) : j < k
    /\ ws_gen[r] = "ended" => Cardinality(Completions(r)) = 1

\* C33: the stream of every request delivers exactly one completion event,
\* after every log event of its calculation that it delivers, and then
\* ends, however the calculation ended.
C33_OneCompletionThenEnd ==
    /\ [](\A r \in Requests : StreamShape(r))
    /\ \A r \in Requests : (ws_gen[r] = "wait") ~> (ws_gen[r] = "ended")

\* Two streams have ended, one after a calculation that raised and one
\* after a calculation that saved its series, each with a log event of its
\* own calculation before its completion event.
C33_Witness ==
    /\ \A r \in Requests : ws_gen[r] = "ended" /\ OwnLogs(r) # {}
    /\ ws_outcome[1] = "raised"
    /\ InStream(1, Complete(FALSE))
    /\ ws_outcome[2] = "saved"
    /\ InStream(2, Complete(TRUE))

\* C34: with two requests running at the same time, each stream carries
\* only log lines of its own calculation, and once it has ended it has
\* carried every line its calculation printed.
C34_StreamsCarryOwnLines ==
    (\A r \in Requests : ws_pc[r] # "idle")
        => \A r \in Requests :
               /\ \A k \in 1..Len(ws_stream[r]) :
                      ws_stream[r][k].type = "log" => ws_stream[r][k].of = r
               /\ ws_gen[r] = "ended"
                      => \A n \in 1..ws_prints[r] : InStream(r, LogLine(r, n))

-----------------------------------------------------------------------------
(* Properties of the save.                                                 *)

\* The rows of the series stamped later than the latest time stored for the
\* address before the save.
LaterThanStored ==
    LET mine == {r.time : r \in {r0 \in db_before : r0.address = db_address}}
    IN  {[address |-> db_address, time |-> db_series[i].timestamp,
          value |-> db_series[i].value] :
            i \in {j \in 1..Len(db_series) :
                     \A t \in mine : db_series[j].timestamp > t}}

\* C26: an incremental save keeps every row stored before it and adds
\* exactly the rows of the new series stamped later than the latest time
\* stored for the address.
C26_IncrementalSaveAppends ==
    (db_pc = "done" /\ db_incremental)
        => /\ db_before \subseteq db_table
           /\ db_table \ db_before = LaterThanStored

\* The series overlaps the stored rows of the address with other values
\* and reaches beyond them, while the other address holds a later row.
C26_Witness ==
    /\ db_pc = "done"
    /\ db_incremental
    /\ \E r \in db_before : \E i \in 1..Len(db_series) :
           /\ r.address = db_address
           /\ r.time = db_series[i].timestamp
           /\ r.value # db_series[i].value
    /\ \E r \in db_before : \E i \in 1..Len(db_series) :
           /\ r.address # db_address
           /\ r.time > db_series[i].timestamp
           /\ [address |-> db_address, time |-> db_series[i].timestamp,
               value |-> db_series[i].value] \in db_table \ db_before

\* The series the save was asked to store, as rows of the address.
NewSeriesRows ==
    {SeriesRow("a1", ow_series[k].timestamp) : k \in 1..Len(ow_series)}

\* C32: when a full-overwrite save has returned or raised, the store holds
\* for the address either the complete previous series or the complete new
\* one.
C32_OverwriteIsAllOrNothing ==
    ow_pc \in {"returned", "raised"}
        => \/ OfAddress(ow_committed, "a1") = ow_before
           \/ OfAddress(ow_committed, "a1") = NewSeriesRows

-----------------------------------------------------------------------------
(* Properties of the price lookup.                                         *)

\* C24: a price lookup for a coin at a timestamp returns the opening price
\* of a candle whose start time is not later than the timestamp; it never
\* returns the price of a candle that starts after the timestamp.
C24_NeverAFutureCandle ==
    (kl_pc = "done" /\ kl_result # <<>>) =>
        \E n \in 1..2 : \E t \in kl_data[n].candles :
            /\ kl_data[n].ok
            /\ t <= kl_timestamp
            /\ kl_result.open = candle_open(n, t)
            /\ kl_result.timestamp = t

\* The finest interval answered with later candles only and the price
\* came from an earlier candle of the next interval, which also held a
\* later candle nearer to the timestamp.
C24_Witness ==
    /\ kl_pc = "done"
    /\ kl_result # <<>>
    /\ kl_intervals = <<1, 2>>
    /\ kl_result.interval = 2
    /\ kl_data[1].candles # {}
    /\ \E u \in kl_data[2].candles :
           /\ u > kl_timestamp
           /\ u - kl_timestamp < kl_timestamp - kl_result.timestamp

-----------------------------------------------------------------------------
(* Properties of undo followed by redo.                                    *)

\* C20: for any position and any event, undoing the event's impact from the
\* position obtained by applying it, and then applying it again, gives
\* exactly the position obtained by applying it once, in the spot book and
\* in the perp book.
C20_UndoThenRedoRestores ==
    rt_pc = "done" =>
        /\ rt_spot = rt_once.spot
        /\ rt_perp = rt_once.perp

-----------------------------------------------------------------------------
(* Properties of the FIFO queue.                                           *)

\* C8: as long as no close has run short of inventory, the signed lot sum
\* of the queue is the starting sum plus the signed sum of the trades
\* applied (opens of a long, closes of a short and flips to long positive;
\* opens of a short, closes of a long and flips to short negative).
C8_FifoConservation ==
    ~shortfall => SumAmounts(queue) = start_sum + trade_sum

\* A queue that started net long is net short after MaxOps trades, the last
\* of them a flip, with no shortfall on the way.
C8_Witness ==
    /\ ~shortfall
    /\ nops = MaxOps
    /\ last_op = "Long > Short"
    /\ start_sum > 0
    /\ SumAmounts(queue) < 0
    /\ SumAmounts(queue) = start_sum + trade_sum

\* The amount lot k holds in the direction sign (1 long, -1 short).
SameDirection(q, k, sign) ==
    IF q[k].amount * sign > 0 THEN q[k].amount * sign ELSE 0

\* The amount the lots before lot k hold in that direction.
RECURSIVE SameDirectionBefore(_, _, _)
SameDirectionBefore(q, k, sign) ==
    IF k <= 1 THEN 0
    ELSE SameDirectionBefore(q, k - 1, sign) + SameDirection(q, k - 1, sign)

\* What a close of amount a takes from lot k when it takes from the oldest
\* lot of its direction first.
Matched(q, k, sign, a) ==
    LET rest == a - SameDirectionBefore(q, k, sign)
    IN  IF rest <= 0 THEN 0 ELSE Min(rest, SameDirection(q, k, sign))

OldestFirstQueue(q, sign, a) ==
    SelectSeq([k \in 1..Len(q) |->
                  Lot(q[k].price, q[k].amount - sign * Matched(q, k, sign, a))],
              LAMBDA lot : lot.amount # 0)

RECURSIVE OldestFirstPnl(_, _, _, _, _)
OldestFirstPnl(q, k, sign, a, price) ==
    IF k > Len(q) THEN 0
    ELSE sign * (price - q[k].price) * Matched(q, k, sign, a)
         + OldestFirstPnl(q, k + 1, sign, a, price)

CloseSign == IF last_op = "Close Long" THEN 1 ELSE -1

CoveredClose ==
    /\ last_op \in {"Close Long", "Close Short"}
    /\ SameDirectionBefore(prev_queue, Len(prev_queue) + 1, CloseSign)
           >= last_amount

\* C21: a close of amount a on a queue whose lots of the closed direction
\* total at least a removes exactly a from those lots in queue order,
\* oldest first, and realizes the sum over the consumed parts of
\* (close price - lot price) x matched amount, negated for shorts; closing
\* 10 long at 110 against one lot of 10 opened at 100 realizes 100 and
\* leaves the queue empty.
C21_CloseConsumesOldestFirst ==
    /\ CoveredClose =>
           /\ queue = OldestFirstQueue(prev_queue, CloseSign, last_amount)
           /\ last_pnl = OldestFirstPnl(prev_queue, 1, CloseSign, last_amount,
                                        OpPrice)
    /\ process_close_long(<<Lot(100, 10)>>, 10, 110) = FifoResult(<<>>, 100, 0)

\* A long close that consumes the oldest long lot whole and a part of a
\* later one, at a profit.
C21_Witness ==
    /\ CoveredClose
    /\ last_op = "Close Long"
    /\ last_pnl > 0
    /\ \E k1, k2 \in 1..Len(prev_queue) :
           /\ k1 < k2
           /\ SameDirection(prev_queue, k1, 1) > 0
           /\ Matched(prev_queue, k1, 1, last_amount)
                  = SameDirection(prev_queue, k1, 1)
           /\ Matched(prev_queue, k2, 1, last_amount) > 0
           /\ Matched(prev_queue, k2, 1, last_amount)
                  < SameDirection(prev_queue, k2, 1)

-----------------------------------------------------------------------------
(* Properties of the perpetual valuation.                                  *)

\* The loop has finished the bucket whose window is
\* (grid[pidx - 1], grid[pidx]].
BucketProcessed == ppc \in {"seed", "done"} /\ pidx >= 2

\* The queue that bucket was seeded with.
SeededQueue(c) ==
    seed_queue(find_position_before(positions_df, grid[pidx - 1])[c],
               price_cols[c] # <<>>, price_at(price_cols, c, pidx - 2))

\* The coin's trades of that bucket in timeline order.
ChronologicalTrades(c) ==
    trades_of_coin(get_trades_in_interval(positions_df, grid[pidx - 1],
                                          grid[pidx]), c)

ChronologicalOrderMatches(c) ==
    ~apply_trades(SeededQueue(c), ChronologicalTrades(c), 0, FALSE).residual

\* C9: when a bucket's trades of a coin, applied in timeline order to the
\* seeded queue, never close more than is held, then applying them in the
\* priority order (opens, flips, closes, forced) leaves no close with an
\* unmatched residual.
C9_PriorityOrderNeverStarvesClose ==
    BucketProcessed
        => \A c \in BookCoins : ChronologicalOrderMatches(c) => ~residual[c]

\* The position the bucket being processed starts from, and the coin's
\* price at the previous grid row.
HeldAtStart(c) == find_position_before(positions_df, grid[pidx])[c]
PriceAtStart(c) == price_at(price_cols, c, pidx - 1)

\* C10 as stated: right after seeding, every coin with a non-zero position
\* at the bucket's start has exactly one lot of that amount at the coin's
\* price at the previous grid row, and no coin has any other lot.
C10_FreshQueueOneLotPerHeldCoin ==
    ppc = "trade"
        => \A c \in BookCoins :
               position_queues[c] =
                   IF HeldAtStart(c) # 0
                   THEN <<Lot(PriceAtStart(c), HeldAtStart(c))>>
                   ELSE <<>>

\* C10 amended: right after seeding, every coin with a non-zero position at
\* the bucket's start and a positive price at the previous grid row has
\* exactly one lot of that amount at that price; a coin without a position
\* or without a positive price has no lot; nothing of the previous bucket's
\* queue remains.
C10_FreshQueueOneLotPerPricedCoin ==
    ppc = "trade"
        => \A c \in BookCoins :
               position_queues[c] =
                   IF HeldAtStart(c) # 0 /\ PriceAtStart(c) > 0
                   THEN <<Lot(PriceAtStart(c), HeldAtStart(c))>>
                   ELSE <<>>

\* The second transition is seeded after a first bucket with trades: ETH
\* gets its one lot, BTC is held but has no price column and gets none.
C10_Witness ==
    /\ ppc = "trade"
    /\ pidx = 2
    /\ get_trades_in_interval(positions_df, grid[1], grid[2]) # <<>>
    /\ HeldAtStart("BTC") # 0
    /\ price_cols["BTC"] = <<>>
    /\ position_queues["BTC"] = <<>>
    /\ HeldAtStart("ETH") # 0
    /\ position_queues["ETH"] = <<Lot(PriceAtStart("ETH"), HeldAtStart("ETH"))>>

\* The perp position once the row r has taken effect.
PositionAfterRow(r) ==
    IF r.coin = "" THEN r.perp_positions
    ELSE [r.perp_positions EXCEPT ![r.coin] =
              @ + (IF r.side = "B" THEN r.amount ELSE -r.amount)]

\* The position the account holds at time t: the one left by the last row
\* not later than t, or the one before the first row.
HeldAt(t) ==
    LET upto == {i \in 1..Len(positions_df) : positions_df[i].timestamp <= t}
    IN  IF upto = {} THEN positions_df[1].perp_positions
        ELSE PositionAfterRow(positions_df[SetMax(upto)])

\* Bucket k is the window (grid[k - 1], grid[k]]; its figures are the k-th
\* entries of the columns.
RowsInBucket(k) ==
    {i \in 1..Len(positions_df) : /\ positions_df[i].timestamp > grid[k - 1]
                                  /\ positions_df[i].timestamp <= grid[k]}

OpenedInBucket(c, k) == HeldAt(grid[k - 1])[c] = 0 /\ HeldAt(grid[k])[c] # 0

\* Every coin held at the start of bucket k has a positive price at both
\* ends of the bucket.
HeldCoinsPriced(k) ==
    \A c \in BookCoins :
        HeldAt(grid[k - 1])[c] # 0
            => /\ price_cols[c] # <<>>
               /\ price_cols[c][k - 1] > 0
               /\ price_cols[c][k] > 0

\* (end price - start price) x held quantity, over the coins held.
PriceMoveOnHeld(k) ==
    SumOver([c \in BookCoins |->
                IF HeldAt(grid[k - 1])[c] # 0
                THEN (price_cols[c][k] - price_cols[c][k - 1])
                         * HeldAt(grid[k - 1])[c]
                ELSE 0], BookCoins)

\* C11: a position opened in one bucket and held through the next bucket,
\* which has no events, gives that next bucket a virtual_pnl of
\* (end price - start price) x held quantity, and perp_account_value rises
\* by exactly that amount.
C11_HeldPositionGainsPriceMove ==
    \A k \in 3..Len(virtual_pnl) :
        (/\ \E c \in BookCoins : OpenedInBucket(c, k - 1)
         /\ RowsInBucket(k) = {}
         /\ HeldCoinsPriced(k))
            => /\ virtual_pnl[k] = PriceMoveOnHeld(k)
               /\ perp_account_value[k]
                      = perp_account_value[k - 1] + PriceMoveOnHeld(k)

\* C27: when a bucket has been seeded, its start boundary T not earlier than
\* the first event, the position read for T (the one the bucket's queues
\* are seeded from) is the position the account holds once every event
\* stamped T or earlier, the latest one included, has taken effect.
C27_BoundaryPositionIsCurrent ==
    ppc = "trade"
        => LET T == grid[pidx]
           IN  (\E i \in 1..Len(positions_df) : positions_df[i].timestamp <= T)
                   => find_position_before(positions_df, T) = HeldAt(T)

\* The buckets whose valuation takes row i in: as a trade of the bucket's
\* window or in the window's perp asset changes.
BucketsCounting(i) ==
    LET row == <<positions_df[i]>>
    IN  {k \in 2..Len(grid) :
            \/ get_trades_in_interval(row, grid[k - 1], grid[k]) # <<>>
            \/ get_perp_asset_changes_in_interval(row, grid[k - 1], grid[k]) # 0}

\* C28: once every bucket is valued, each timeline row stamped between the
\* first and the last bucket start, both included, has been taken into the
\* perp valuation of exactly one bucket.
C28_EveryEventCountedOnce ==
    (grid # <<>> /\ Len(perp_account_value) = Len(grid))
        => \A i \in 1..Len(positions_df) :
               (/\ positions_df[i].timestamp >= grid[1]
                /\ positions_df[i].timestamp <= grid[Len(grid)])
                   => Cardinality(BucketsCounting(i)) = 1

\* The prices of coin c at the two ends of the bucket just processed.
BucketStartPrice(c) == price_at(price_cols, c, pidx - 2)
BucketEndPrice(c) == price_at(price_cols, c, pidx - 1)

PricedInBucket(c) ==
    price_cols[c] # <<>> /\ BucketStartPrice(c) > 0 /\ BucketEndPrice(c) > 0

\* The virtual close of the coin's queue at bucket end, and the price move
\* of the bucket on the queue's net quantity.
VirtualCloseOfQueue(c) == queue_virtual_pnl(position_queues[c], BucketEndPrice(c))
PriceMoveOnQueue(c) ==
    (BucketEndPrice(c) - BucketStartPrice(c)) * SumAmounts(position_queues[c])

\* The coin's trades of the bucket just processed open no lot.
OnlyCloses(c) ==
    \A i \in 1..Len(ChronologicalTrades(c)) :
        ChronologicalTrades(c)[i].dir \in {"Close Long", "Close Short"}

WarningsOfPair(c, d) ==
    warning_log[<<c, d, "mismatch">>] + warning_log[<<c, d, "not_found">>]
        + warning_log[<<c, d, "missing_in_queue">>]

-----------------------------------------------------------------------------
(* Properties of the net value.                                            *)

NavIdentity(k) == FracMul(net_value[k], total_shares[k]) = FracOfInt(total_assets[k])

\* C7 as stated: in the finished series net_value * total_shares equals
\* total_assets in every bucket.
C7_NetValueTimesSharesIsAssets ==
    npc = "done" => \A k \in 1..NavBuckets : NavIdentity(k)

\* C7 amended: in the finished series net_value * total_shares equals
\* total_assets in every bucket whose total_shares is not zero, and
\* net_value is 0 in every bucket whose total_shares is zero.
C7_NetValueIdentityWhereSharesExist ==
    npc = "done"
        => \A k \in 1..NavBuckets :
               IF total_shares[k].num # 0
               THEN NavIdentity(k)
               ELSE net_value[k] = FracZero

\* Shares were issued in the first bucket, the net value then moved to a
\* proper fraction, and the last bucket issued further shares at it.
C7_Witness ==
    /\ npc = "done"
    /\ first_non_zero_idx = 1
    /\ net_value[2].den # 1
    /\ total_shares[3] # total_shares[2]
    /\ total_shares[3].num # 0
    /\ NavIdentity(3)

-----------------------------------------------------------------------------
(* Properties of the series computed end to end.                           *)

SeriesDone == npc = "done"

\* The account's only event is one deposit and it held nothing before it.
LoneDeposit ==
    /\ Len(positions_df) = 1
    /\ positions_df[1].kind = "deposit"
    /\ positions_df[1].perp_positions = EmptyBook
    /\ positions_df[1].spot_positions = ZeroSpot

\* C13: for an account whose only event is one deposit of 1000, the series
\* has a bucket after the deposit with total_shares = 1000 and
\* net_value = 1.
C13_LoneDepositGivesParShares ==
    (SeriesDone /\ LoneDeposit)
        => \E k \in 1..Len(grid) :
               /\ grid[k] >= positions_df[1].timestamp
               /\ total_shares[k] = FracOfInt(DepositUsdc)
               /\ net_value[k] = FracOfInt(1)

\* Bucket k's window (grid[k - 1], grid[k]] holds no timeline row and no
\* price differs between its two ends.
QuietBucket(k) ==
    /\ RowsInBucket(k) = {}
    /\ \A c \in DOMAIN price_cols : price_cols[c][k] = price_cols[c][k - 1]

PureFlow(r) ==
    \/ r.kind = "deposit"
    \/ r.kind = "withdraw" /\ r.perp_asset_change = -WithdrawUsdc

PureFlowBucket(k) ==
    /\ total_shares[k - 1] # FracZero
    /\ net_value[k - 1] # FracZero
    /\ Len(interval_events[k]) = 1
    /\ PureFlow(interval_events[k][1])
    /\ \A c \in DOMAIN price_cols : price_cols[c][k] = price_cols[c][k - 1]

\* C35: a bucket whose only event is a deposit or a fee-free withdrawal and
\* whose prices are unchanged has the net value of the previous bucket.
C35_PureFlowKeepsNetValue ==
    SeriesDone
        => \A k \in 2..Len(grid) :
               PureFlowBucket(k) => net_value[k] = net_value[k - 1]

-----------------------------------------------------------------------------
(* Properties of the run.                                                  *)

\* C5: a run in which an external call has finally failed (timeout,
\* connection failure or rate limit, retries exhausted) never emits a
\* series.
C5_FailedCallFailsRun ==
    failed_calls # {} => run_result # "series"

\* The price source throttles every attempt of the fetch, and the fetch is
\* over.
AlwaysThrottled ==
    /\ failure.call = "price"
    /\ failure.kind = "rate_limit"
    /\ failure.throttled = max_retries
PriceFetchOver == rpc \in {"compute", "done"} /\ run_result # "failed"

C16_FailedCallWasRetried ==
    failed_calls # {} => sleeps # <<>>

SourceEvents == src_events.trade \o src_events.funding \o src_events.ledger

UnrecognizedLedgerSubtype(e) == e.type = "ledger" /\ e.subtype \notin LedgerTypes
UnmatchedSend(e) == e.type = "ledger" /\ e.subtype = "send" /\ send_case(e) = 0
BadTradeSide(e) == e.type = "trade" /\ e.side \notin {"B", "A"}

FatalInput ==
    \/ \E i \in 1..Len(SourceEvents) :
           \/ UnrecognizedLedgerSubtype(SourceEvents[i])
           \/ UnmatchedSend(SourceEvents[i])
           \/ BadTradeSide(SourceEvents[i])
    \/ SourceEvents = <<>>
    \/ src_snapshots = 0

\* C6: when an event has an unrecognized ledger subtype, an unmatched send
\* combination or a trade side other than B or A, or the event source or
\* the snapshot source is empty, the run emits no series.
C6_FatalInputAbortsRun ==
    FatalInput => run_result # "series"

\* With every source answering and snapshots present, the run has ended in
\* failure at event processing on an unmatched send.
C6_Witness ==
    /\ rpc = "done"
    /\ run_result = "failed"
    /\ failure = NoFailure
    /\ src_snapshots = 1
    /\ src_events.trade # <<>>
    /\ \E i \in 1..Len(loaded) : UnmatchedSend(loaded[i])
    /\ \A i \in 1..Len(loaded) : ~BadTradeSide(loaded[i])

====
